---- MODULE Spec2Model ----
(***************************************************************************)
(* Model of the pub-quiz backend's real-time room engine:                  *)
(*   - the question table and QuestionService (services/question_service), *)
(*   - the ConnectionManager registry and broadcast (services/websocket),  *)
(*   - the per-connection handler websocket_endpoint and process_answer    *)
(*     (api/routes/websocket).                                             *)
(*                                                                         *)
(* Execution model.  The application is one asyncio event loop: every      *)
(* handler is an `async def` that calls the synchronous SQLAlchemy session *)
(* directly, so a handler runs without interruption from one `await` that  *)
(* suspends to the next.  Each action below is one such run: it starts     *)
(* where a coroutine is resumed and ends where it suspends again (or       *)
(* returns).  QuestionService methods contain no suspending await, so each *)
(* of them is a single action.                                             *)
(***************************************************************************)
EXTENDS Integers, Sequences, FiniteSets, TLC

\* ------------------------------------------------------------------ bounds
\* Number of answer events the clients send in one run.
MaxAnswers == 2
\* Number of chat events the clients send in one run.
MaxChats == 1
\* Number of question-management requests (create/update/delete/activate)
\* issued while sessions are running.
MaxAdminOps == 1

\* ------------------------------------------------------------ fixed inputs
Rooms == {"r1", "r2"}
\* room ids a client may name in the URL; "r0" is not a row of `rooms`
RoomIds == Rooms \cup {"r0"}
NoRoom == "-"
Teams == {1, 2}
\* team ids a client may name in the URL; 0 is not a row of `teams`
TeamIds == Teams \cup {0}
\* rows of team_room_participation present in the store
Participations == {<<1, "r1">>, <<2, "r1">>, <<1, "r2">>}
QuestionIds == {1, 2, 3}
Sessions == {"s1", "s2", "s3"}
NoSession == "-"

\* ------------------------------------------------------ question attributes
\* text, question_type, correct_answer and points of a question are fixed per
\* id: the requests modelled here change only room_id and is_active.
QType(q) == IF q = 1 THEN "MULTIPLE_CHOICE" ELSE "TEXT"
QCorrect(q) == IF q = 1 THEN <<"B">> ELSE <<"a">>
QPoints(q) == IF q = 1 THEN 5 ELSE q

\* answer texts a client may submit (a text is a sequence of characters)
Texts == {<<"b">>, <<"B">>, <<"a">>}

\* ---------------------------------------------------------------- state
VARIABLES
    questions,    \* table questions: id -> [exists, room_id, is_active]
    nextQuestionId, \* AUTO_INCREMENT of questions.id
    answers,      \* table answers: set of rows [id, team_id, question_id, text, is_correct]
    partPoints,   \* team_room_participation.points, by <<team_id, room_id>>
    totalPoints,  \* teams.total_points, by team id
    orm,          \* per connection: attribute values its ORM session holds for
                  \* `participation.points` and `team.total_points` (Expired = not loaded)
    conns,        \* ConnectionManager.active_connections: room -> list of sessions
                  \* (<<>> = the room has no key)
    pc,           \* per connection: where its websocket_endpoint coroutine is suspended
    sessRoom,     \* per connection: room_id path parameter
    sessTeam,     \* per connection: team_id path parameter
    alive,        \* per connection: the transport is still open
    stalled,      \* connections whose client has stopped reading: a send to them
                  \* does not complete while the transport stays open
    waitOn,       \* per handler: the connection whose pending send the handler
                  \* awaits (NoSession when the awaited send completes)
    bIdx,         \* per handler: index of the list iterator of its running broadcast
    bDet,         \* per handler: the list its broadcast iterates is no longer the
                  \* room's list (the room key was deleted, or was absent at the call)
    bMsg,         \* per handler: the event of its running (or next) broadcast
    bStart,       \* history: the room's list when the handler's broadcast was called
    bGot,         \* history: sessions the handler's broadcast has called send_text on
    bFail,        \* history: sessions whose send_text raised in the handler's broadcast
    inbox,        \* per connection: the events of the watched types the client has
                  \* received, in order
    watch,        \* the event types the inboxes record (fixed during a run)
    commitSeq,    \* history: number of award transactions committed so far
    awarded,      \* history: points of the correct submissions processed, by participation
    lastSub,      \* history: <<text, is_correct>> of the last processed submission, by <<team, question>>
    lastOp,       \* history: the last QuestionService request and its result
    prevOp,       \* history: the QuestionService request before the last
    nAnswers, nChats, nAdmin,  \* events consumed so far (bounded by Max*)
    probe,        \* send_question under test: <<question row, question row, options>>
    payload,      \* the question messages send_question produced for the two rows
    teamTable,    \* table teams as login sees it: rows [id, name, password]
    participationTable  \* table team_room_participation: rows [id, team_id, room_id]

dbVars == <<questions, nextQuestionId, answers, partPoints, totalPoints>>
netVars == <<conns, pc, bIdx, bDet, bMsg, bStart, bGot, bFail, inbox, waitOn>>
sessVars == <<sessRoom, sessTeam, alive, stalled, orm, watch>>
histVars == <<commitSeq, awarded, lastSub, lastOp, prevOp>>
cntVars == <<nAnswers, nChats, nAdmin>>
probeVars == <<probe, payload>>
loginVars == <<teamTable, participationTable>>
vars == <<dbVars, netVars, sessVars, histVars, cntVars, probeVars, loginVars>>

Expired == <<>>
NoQuestion == [exists |-> FALSE, room_id |-> NoRoom, is_active |-> FALSE]
NoMsg == [type |-> "none", src |-> NoSession, ref |-> 0]
NoOp == [op |-> "none", q |-> 0, ok |-> FALSE]

\* ------------------------------------------------------------- store reads
\* db.query(Question).filter(Question.room_id == r, Question.is_active == True)
ActiveIn(r) == {q \in QuestionIds : questions[q].exists /\ questions[q].room_id = r
                                    /\ questions[q].is_active}

\* =================================================== QuestionService
\* The rows `db.query(Question).filter(room_id == r, id != question_id)
\* .update({"is_active": False})` rewrites.
Siblings(question_id) ==
    {o \in QuestionIds : /\ questions[o].exists
                         /\ questions[o].room_id = questions[question_id].room_id
                         /\ o # question_id}

\* A set_question_active that writes the target row only.
TableAfterSetActiveTargetOnly(question_id, is_active) ==
    [questions EXCEPT ![question_id].is_active = is_active]

\* A set_question_active that deactivates the siblings but loses the write of
\* the target row.
TableAfterSetActiveSiblingsOnly(question_id, is_active) ==
    [o \in QuestionIds |->
        IF is_active /\ o \in Siblings(question_id)
        THEN [questions[o] EXCEPT !.is_active = FALSE]
        ELSE questions[o]]

\* The question table set_question_active commits.
TableAfterSetActive(question_id, is_active) ==
    [o \in QuestionIds |->
        IF o = question_id THEN [questions[o] EXCEPT !.is_active = is_active]
        ELSE IF is_active /\ o \in Siblings(question_id)
             THEN [questions[o] EXCEPT !.is_active = FALSE]
             ELSE questions[o]]

\* A set_question_active that writes without looking the question up.
SetQuestionActiveNoLookup(question_id, is_active) ==
    /\ questions' = TableAfterSetActive(question_id, is_active)
    /\ lastOp' = [op |-> IF is_active THEN "activate" ELSE "deactivate",
                  q |-> question_id, ok |-> TRUE]
    /\ UNCHANGED <<nextQuestionId, answers, partPoints, totalPoints, netVars,
                   sessVars, commitSeq, awarded, lastSub>>

\* QuestionService.set_question_active, called by the routes
\* PATCH /questions/{id}/activate (is_active = TRUE) and /deactivate (FALSE).
\* The method has no suspending await: query, bulk update, assignment and
\* commit are one run of the event loop.
SetQuestionActive(question_id, is_active) ==
    /\ IF ~questions[question_id].exists
       THEN /\ UNCHANGED questions                      \* return None -> 404
            /\ lastOp' = [op |-> "set_active_404", q |-> question_id, ok |-> FALSE]
       ELSE /\ questions' = TableAfterSetActive(question_id, is_active)
            /\ lastOp' = [op |-> IF is_active THEN "activate" ELSE "deactivate",
                          q |-> question_id, ok |-> TRUE]
    /\ UNCHANGED <<nextQuestionId, answers, partPoints, totalPoints, netVars,
                   sessVars, commitSeq, awarded, lastSub>>

\* QuestionService.create_question: the new row takes room_id and is_active
\* from the request body (QuestionCreate.is_active); the id is the table's
\* next AUTO_INCREMENT value.
CreateQuestion(room_id, is_active) ==
    /\ nextQuestionId \in QuestionIds
    /\ questions' = [questions EXCEPT ![nextQuestionId] =
            [exists |-> TRUE, room_id |-> room_id, is_active |-> is_active]]
    /\ nextQuestionId' = nextQuestionId + 1
    /\ lastOp' = [op |-> "create", q |-> nextQuestionId, ok |-> TRUE]
    /\ UNCHANGED <<answers, partPoints, totalPoints, netVars, sessVars,
                   commitSeq, awarded, lastSub>>

\* QuestionService.update_question: every key of the request body that names
\* an attribute is set on the row.  The bodies modelled carry is_active,
\* room_id, both or neither; Keep stands for an absent key.
Keep == "keep"
UpdateQuestion(question_id, room_id, is_active) ==
    /\ IF ~questions[question_id].exists
       THEN /\ UNCHANGED questions                      \* return None -> 404
            /\ lastOp' = [op |-> "update_404", q |-> question_id, ok |-> FALSE]
       ELSE /\ questions' = [questions EXCEPT ![question_id] =
                    [exists |-> TRUE,
                     room_id |-> IF room_id = Keep THEN @.room_id ELSE room_id,
                     is_active |-> IF is_active = Keep THEN @.is_active
                                   ELSE is_active = "true"]]
            /\ lastOp' = [op |-> "update", q |-> question_id, ok |-> TRUE]
    /\ UNCHANGED <<nextQuestionId, answers, partPoints, totalPoints, netVars,
                   sessVars, commitSeq, awarded, lastSub>>

\* QuestionService.delete_question: db.delete(db_question); the answers of the
\* question (relationship Question.answers, no delete cascade) keep their rows
\* with question_id set to NULL (0 here).
DeleteQuestion(question_id) ==
    /\ IF ~questions[question_id].exists
       THEN /\ UNCHANGED <<questions, answers>>         \* return False -> 404
            /\ lastOp' = [op |-> "delete_404", q |-> question_id, ok |-> FALSE]
       ELSE /\ questions' = [questions EXCEPT ![question_id] = NoQuestion]
            /\ answers' = {IF a.question_id = question_id
                           THEN [a EXCEPT !.question_id = 0] ELSE a : a \in answers}
            /\ lastOp' = [op |-> "delete", q |-> question_id, ok |-> TRUE]
    /\ UNCHANGED <<nextQuestionId, partPoints, totalPoints, netVars, sessVars,
                   commitSeq, awarded, lastSub>>

\* =================================================== ConnectionManager
\* The registry, the handlers' control state and the clients' inboxes as one
\* record, so that the steps a handler makes in one run compose as functions.
Net == [conns |-> conns, pc |-> pc, bIdx |-> bIdx, bDet |-> bDet, bMsg |-> bMsg,
        bStart |-> bStart, bGot |-> bGot, bFail |-> bFail, inbox |-> inbox,
        waitOn |-> waitOn]

Commit(n) ==
    /\ conns' = n.conns /\ pc' = n.pc /\ bIdx' = n.bIdx /\ bDet' = n.bDet
    /\ bMsg' = n.bMsg /\ bStart' = n.bStart /\ bGot' = n.bGot /\ bFail' = n.bFail
    /\ inbox' = n.inbox
    /\ waitOn' = n.waitOn

BroadcastPcs == {"bc_joined", "bc_chat", "bc_lb", "bc_left"}

\* list.remove(x): the list without the first occurrence of x
Remove(list, x) ==
    LET i == CHOOSE j \in 1..Len(list) :
                 list[j] = x /\ \A k \in 1..(j - 1) : list[k] # x
    IN  SubSeq(list, 1, i - 1) \o SubSeq(list, i + 1, Len(list))
Members(list) == {list[i] : i \in 1..Len(list)}

\* A dict without one key: `del d[key]`
Del(d, key) == [k \in (DOMAIN d) \ {key} |-> d[k]]

\* disconnect without the membership guard: dict lookup and list.remove raise.
ManagerDisconnectUnguarded(active_connections, websocket, room_id) ==
    IF room_id \notin DOMAIN active_connections
    THEN [registry |-> active_connections, raised |-> "KeyError"]
    ELSE IF websocket \notin Members(active_connections[room_id])
    THEN [registry |-> active_connections, raised |-> "ValueError"]
    ELSE LET rest == Remove(active_connections[room_id], websocket) IN
         [registry |-> IF rest = <<>> THEN Del(active_connections, room_id)
                       ELSE [active_connections EXCEPT ![room_id] = rest],
          raised |-> "none"]

\* ConnectionManager.disconnect (lines 15-20) on the dict active_connections:
\* a function from the room ids that are keys to their lists.
ManagerDisconnect(active_connections, websocket, room_id) ==
    IF room_id \in DOMAIN active_connections
       /\ websocket \in Members(active_connections[room_id])
    THEN LET rest == Remove(active_connections[room_id], websocket) IN
         [registry |-> IF rest = <<>> THEN Del(active_connections, room_id)
                       ELSE [active_connections EXCEPT ![room_id] = rest],
          raised |-> "none"]
    ELSE [registry |-> active_connections, raised |-> "none"]

\* manager.disconnect called twice in a row with the same arguments.
Disconnect ==
    /\ probe # <<>>
    /\ payload = <<>>
    /\ LET once == ManagerDisconnect(probe[1], probe[2], probe[3])
           twice == ManagerDisconnect(once.registry, probe[2], probe[3])
       IN payload' = <<once, twice>>
    /\ UNCHANGED <<dbVars, netVars, sessVars, histVars, cntVars, probe, loginVars>>

\* ConnectionManager.connect after accept(): create the room's list if the key
\* is absent, append the websocket.
RegistryAppend(n, s) ==
    [n EXCEPT !.conns[sessRoom[s]] = Append(@, s)]

\* ConnectionManager.disconnect: remove the websocket from the room's list and
\* delete the key of a list that became empty.  A broadcast still iterating
\* the deleted list keeps that (now empty) list object; a later connect
\* creates a new one.
RegistryRemove(n, s) ==
    LET r == sessRoom[s]
        present == s \in Members(n.conns[r])
        rest == Remove(n.conns[r], s)
    IN  IF ~present THEN n
        ELSE [n EXCEPT !.conns[r] = rest,
                       !.bDet = [h \in Sessions |->
                                   IF rest = <<>> /\ n.pc[h] \in BroadcastPcs
                                                  /\ sessRoom[h] = r
                                   THEN TRUE ELSE n.bDet[h]]]

\* The client of `target` receives msg, unless it has stopped reading.
Received(n, target, msg) ==
    IF msg.type \in watch /\ target \notin stalled
    THEN [n EXCEPT !.inbox[target] = Append(@, msg)] ELSE n

\* `await send` to target by handler h: the await completes when the client
\* takes the data; with a client that has stopped reading the write buffer
\* stays full and the await stays pending.
Awaits(n, h, target) ==
    [n EXCEPT !.waitOn[h] = IF target \in stalled THEN target ELSE NoSession]

\* Handler h cannot be resumed: the send it awaits is pending on an open
\* transport whose client does not read.
Blocked(h) == waitOn[h] # NoSession /\ alive[waitOn[h]]

\* A broadcast that iterates the connections of every room.
IterListAllRooms(n, h) ==
    IF n.bDet[h] THEN <<>> ELSE n.conns["r1"] \o n.conns["r2"]

\* The list object handler h's broadcast iterates.
IterList(n, h) == IF n.bDet[h] THEN <<>> ELSE n.conns[sessRoom[h]]

\* The list iterator has a next element.
HasNext(n, h) == n.bIdx[h] < Len(IterList(n, h))

\* One iteration of the loop in ConnectionManager.broadcast:
\*     try: await connection.send_text(message)
\*     except Exception: pass
\* send_text on a closed transport raises; the exception is swallowed.
SendToMember(n, h, target) ==
    IF alive[target]
    THEN [Awaits(Received(n, target, n.bMsg[h]), h, target) EXCEPT
                   !.bGot[h] = @ \cup {target},
                   !.bIdx[h] = @ + 1]
    ELSE [n EXCEPT !.bGot[h] = @ \cup {target},
                   !.bFail[h] = @ \cup {target},
                   !.bIdx[h] = @ + 1,
                   !.waitOn[h] = NoSession]

\* `for connection in self.active_connections[room_id]`: the iterator reads
\* the live list at its own index.
NextTarget(n, h) == IterList(n, h)[n.bIdx[h] + 1]

\* Resume of a broadcast that has a next element: fetch it and send.
IterateOnce(n, h) == SendToMember(n, h, NextTarget(n, h))

\* ConnectionManager.broadcast up to its first suspension:
\* `if room_id in self.active_connections` and the iterator over the list.
CallBroadcast(n, h, kind, msg) ==
    LET r == sessRoom[h]
    IN  [n EXCEPT !.pc[h] = kind, !.bMsg[h] = msg, !.bIdx[h] = 0,
                  !.bDet[h] = (n.conns[r] = <<>>),
                  !.bStart[h] = n.conns[r], !.bGot[h] = {}, !.bFail[h] = {}]

\* =================================================== websocket_endpoint
\* Events: `src` is the connection whose handler produced the event; `ref` is
\* the question id of a question payload and, for a leaderboard_update, the
\* number of the award transaction that triggered it (0 otherwise).
Msg(type, s, ref) == [type |-> type, src |-> s, ref |-> ref]

\* The loop of a broadcast ended: its iterator and its history are dropped.
EndBroadcast(n, h) ==
    [n EXCEPT !.bIdx[h] = 0, !.bDet[h] = FALSE, !.bMsg[h] = NoMsg,
              !.bStart[h] = <<>>, !.bGot[h] = {}, !.bFail[h] = {},
              !.waitOn[h] = NoSession]

\* The handler's last broadcast, "Team ... left the room!": when its loop
\* ends the coroutine returns.
AfterLeft(n, s) ==
    IF HasNext(n, s) THEN IterateOnce(n, s)
    ELSE [EndBroadcast(n, s) EXCEPT !.pc[s] = "closed"]

\* except WebSocketDisconnect: manager.disconnect, then the "left" broadcast
\* up to its first suspension.
Cleanup(n, s) ==
    AfterLeft(CallBroadcast(RegistryRemove(n, s), s, "bc_left",
                            Msg("system_message_left", s, 0)), s)

\* websocket.send_json on the handler's own connection, inside the try block.
\* On an open transport the event is handed over and the handler suspends,
\* to resume at nextpc.  On a closed transport the call raises: `out` is the
\* exception the installed Starlette/uvicorn raises, WebSocketDisconnect
\* (caught by the handler) or another one (not caught: the coroutine dies).
SendOutcomes == {"disconnect", "error"}
PrivateSend(n, s, msg, nextpc, out) ==
    IF alive[s]
    THEN [Awaits(Received(n, s, msg), s, s) EXCEPT !.pc[s] = nextpc]
    ELSE IF out = "disconnect" THEN Cleanup(n, s)
         ELSE [n EXCEPT !.pc[s] = "crashed", !.waitOn[s] = NoSession]

\* An entry sequence that goes from the "joined" announcement straight to the
\* active question.
AfterBroadcastNoLeaderboard(n, s, out) ==
    CASE n.pc[s] = "bc_joined" -> [EndBroadcast(n, s) EXCEPT !.pc[s] = "sent_lb"]
      [] n.pc[s] \in {"bc_chat", "bc_lb"} -> [EndBroadcast(n, s) EXCEPT !.pc[s] = "loop"]
      [] OTHER -> [EndBroadcast(n, s) EXCEPT !.pc[s] = "closed"]

\* What follows a broadcast whose iterator is exhausted, up to the next
\* suspension: send_leaderboard after the "joined" announcement, the next
\* receive_text after a chat or leaderboard broadcast, return after "left".
AfterBroadcast(n, s, out) ==
    CASE n.pc[s] = "bc_joined" ->
            PrivateSend(EndBroadcast(n, s), s, Msg("leaderboard", s, 0), "sent_lb", out)
      [] n.pc[s] \in {"bc_chat", "bc_lb"} -> [EndBroadcast(n, s) EXCEPT !.pc[s] = "loop"]
      [] OTHER -> [EndBroadcast(n, s) EXCEPT !.pc[s] = "closed"]

\* A running broadcast from a resume to its next suspension.
RunBroadcast(n, s, out) ==
    IF HasNext(n, s) THEN IterateOnce(n, s) ELSE AfterBroadcast(n, s, out)

\* A validation that looks up the room and the team and not the participation.
ConnectNoParticipationCheck(s, room_id, team_id) ==
    /\ UNCHANGED <<probeVars, loginVars>>
    /\ pc[s] = "new"
    /\ IF room_id \in Rooms /\ team_id \in Teams
       THEN /\ pc' = [pc EXCEPT ![s] = "accept"]
            /\ sessRoom' = [sessRoom EXCEPT ![s] = room_id]
            /\ sessTeam' = [sessTeam EXCEPT ![s] = team_id]
       ELSE /\ pc' = [pc EXCEPT ![s] = "rejected"]
            /\ UNCHANGED <<sessRoom, sessTeam>>
    /\ UNCHANGED <<dbVars, conns, bIdx, bDet, bMsg, bStart, bGot, bFail, inbox,
                   waitOn, alive, stalled, orm, watch, histVars, cntVars>>

\* Lines 29-50: validation of the path parameters, then manager.connect
\* suspends in websocket.accept().  The Team and TeamRoomParticipation rows
\* are loaded into the handler's ORM session here.
Connect(s, room_id, team_id) ==
    /\ UNCHANGED <<probeVars, loginVars>>
    /\ pc[s] = "new"
    /\ IF room_id \in Rooms /\ team_id \in Teams /\ <<team_id, room_id>> \in Participations
       THEN /\ pc' = [pc EXCEPT ![s] = "accept"]
            /\ sessRoom' = [sessRoom EXCEPT ![s] = room_id]
            /\ sessTeam' = [sessTeam EXCEPT ![s] = team_id]
            /\ orm' = [orm EXCEPT ![s] = [pts |-> <<partPoints[<<team_id, room_id>>]>>,
                                          tot |-> <<totalPoints[team_id]>>]]
       ELSE /\ pc' = [pc EXCEPT ![s] = "rejected"]   \* close(1008), return
            /\ UNCHANGED <<sessRoom, sessTeam, orm>>
    /\ UNCHANGED <<dbVars, conns, bIdx, bDet, bMsg, bStart, bGot, bFail, inbox,
                   waitOn, alive, stalled, watch, histVars, cntVars>>

\* accept() returned: the websocket is appended to the room's list and
\* team_info is sent.  accept() on a transport that closed meanwhile raises
\* outside the try block.
Register(s) ==
    /\ UNCHANGED <<probeVars, loginVars>>
    /\ pc[s] = "accept"
    /\ IF alive[s]
       THEN Commit([Awaits(Received(RegistryAppend(Net, s), s, Msg("team_info", s, 0)), s, s)
                        EXCEPT !.pc[s] = "joined"])
       ELSE Commit([Net EXCEPT !.pc[s] = "crashed"])
    /\ UNCHANGED <<dbVars, sessVars, histVars, cntVars>>

\* Lines 65-71: broadcast of "Team ... joined the room!".
AnnounceJoin(s, out) ==
    /\ UNCHANGED <<probeVars, loginVars>>
    /\ pc[s] = "joined"
    /\ ~Blocked(s)
    /\ Commit(RunBroadcast(CallBroadcast(Net, s, "bc_joined",
                                         Msg("system_message_joined", s, 0)), s, out))
    /\ UNCHANGED <<dbVars, sessVars, histVars, cntVars>>

\* A handler suspended inside ConnectionManager.broadcast is resumed.
BroadcastResume(s, out) ==
    /\ UNCHANGED <<probeVars, loginVars>>
    /\ pc[s] \in BroadcastPcs
    /\ ~Blocked(s)
    /\ Commit(RunBroadcast(Net, s, out))
    /\ UNCHANGED <<dbVars, sessVars, histVars, cntVars>>

\* Lines 76-83: after the leaderboard snapshot, the active question of the
\* room (`.first()` of the active rows), if any, is sent; then the loop's
\* first receive_text.
SendActiveQuestion(s, out) ==
    /\ UNCHANGED <<probeVars, loginVars>>
    /\ pc[s] = "sent_lb"
    /\ ~Blocked(s)
    /\ IF ActiveIn(sessRoom[s]) = {}
       THEN Commit([Net EXCEPT !.pc[s] = "loop"])
       ELSE \E q \in ActiveIn(sessRoom[s]) :
               Commit(PrivateSend(Net, s, Msg("question", s, q), "loop", out))
    /\ UNCHANGED <<dbVars, sessVars, histVars, cntVars>>

\* The client closes or loses its transport.
ClientDrop(s) ==
    /\ UNCHANGED <<probeVars, loginVars>>
    /\ pc[s] \notin {"new", "rejected", "closed", "crashed"}
    /\ alive[s]
    /\ alive' = [alive EXCEPT ![s] = FALSE]
    /\ UNCHANGED <<dbVars, netVars, sessRoom, sessTeam, stalled, orm, watch, histVars, cntVars>>

\* The client stops reading from its connection and keeps it open.
ClientStall(s) ==
    /\ UNCHANGED <<probeVars, loginVars>>
    /\ pc[s] \notin {"new", "rejected", "accept", "closed", "crashed"}
    /\ alive[s] /\ s \notin stalled
    /\ stalled' = stalled \cup {s}
    /\ UNCHANGED <<dbVars, netVars, sessRoom, sessTeam, alive, orm, watch, histVars, cntVars>>

\* receive_text raises WebSocketDisconnect: lines 127-135.
RecvDisconnect(s) ==
    /\ UNCHANGED <<probeVars, loginVars>>
    /\ pc[s] = "loop"
    /\ ~Blocked(s)
    /\ ~alive[s]
    /\ Commit(Cleanup(Net, s))
    /\ UNCHANGED <<dbVars, sessVars, histVars, cntVars>>

\* Line 90-92: the payload is JSON but not an object (`[]`, `1`, `"x"`):
\* json.loads succeeds and message_data.get raises AttributeError, which
\* neither `except json.JSONDecodeError` nor `except WebSocketDisconnect`
\* catches.  The coroutine ends with the exception and the server closes the
\* connection; manager.disconnect is not called.
RecvNonObject(s) ==
    /\ UNCHANGED <<probeVars, loginVars>>
    /\ pc[s] = "loop"
    /\ ~Blocked(s)
    /\ alive[s]
    /\ pc' = [pc EXCEPT ![s] = "crashed"]
    /\ alive' = [alive EXCEPT ![s] = FALSE]
    /\ UNCHANGED <<dbVars, conns, bIdx, bDet, bMsg, bStart, bGot, bFail, inbox, waitOn,
                   sessRoom, sessTeam, stalled, orm, watch, histVars, cntVars>>

\* Lines 90-113: the payload is a JSON object whose "type" is missing or is
\* neither "chat" nor "answer": the if and the elif are both false, there is
\* no else, and the loop goes back to receive_text.
RecvUnknownType(s) ==
    /\ UNCHANGED <<probeVars, loginVars>>
    /\ pc[s] = "loop"
    /\ ~Blocked(s)
    /\ nChats < MaxChats
    /\ nChats' = nChats + 1
    /\ UNCHANGED <<dbVars, netVars, sessVars, histVars, nAnswers, nAdmin>>

\* An attribute of an ORM object: its loaded value, or the row's value when
\* the object is expired.
OrmRead(cached, stored) == IF cached = Expired THEN stored ELSE cached[1]

\* Lines 92-103 and 114-125: a chat event (or a payload that is not JSON) is
\* broadcast to the room.  Reading team.id reloads an expired Team object.
RecvChat(s, out) ==
    /\ UNCHANGED <<probeVars, loginVars>>
    /\ pc[s] = "loop"
    /\ ~Blocked(s)
    /\ nChats < MaxChats
    /\ nChats' = nChats + 1
    /\ orm' = [orm EXCEPT ![s].tot = <<OrmRead(@, totalPoints[sessTeam[s]])>>]
    /\ Commit(RunBroadcast(CallBroadcast(Net, s, "bc_chat", Msg("chat", s, 0)), s, out))
    /\ UNCHANGED <<dbVars, sessRoom, sessTeam, alive, stalled, watch, histVars, nAnswers, nAdmin>>

\* ------------------------------------------------------------ send_question
\* db.query(QuestionOption).filter(QuestionOption.question_id == question.id).all()
OptionsOf(options, question_id) ==
    SelectSeq(options, LAMBDA opt : opt.question_id = question_id)

\* [{"letter": opt.option_letter, "text": opt.option_text} for opt in options]
OptionList(rows) ==
    [i \in 1..Len(rows) |-> [letter |-> rows[i].option_letter, text |-> rows[i].option_text]]

\* Lines 139-146: the keys every question message has.
QuestionData(question) ==
    [type |-> "question", id |-> question.id, text |-> question.text,
     question_type |-> question.question_type, points |-> question.points,
     time_limit |-> question.time_limit]

\* send_question that also copies the answer column into the message.
SendQuestionPayloadWithAnswer(question, options) ==
    LET d == QuestionData(question) IN
    IF question.question_type = "MULTIPLE_CHOICE"
    THEN [type |-> d.type, id |-> d.id, text |-> d.text, question_type |-> d.question_type,
          points |-> d.points, time_limit |-> d.time_limit,
          correct_answer |-> question.correct_answer,
          options |-> OptionList(OptionsOf(options, question.id))]
    ELSE [type |-> d.type, id |-> d.id, text |-> d.text, question_type |-> d.question_type,
          points |-> d.points, time_limit |-> d.time_limit,
          correct_answer |-> question.correct_answer]

\* Lines 137-159: the JSON object send_question hands to websocket.send_json;
\* the key "options" exists only for a MULTIPLE_CHOICE question.
SendQuestionPayload(question, options) ==
    LET d == QuestionData(question) IN
    IF question.question_type = "MULTIPLE_CHOICE"
    THEN [type |-> d.type, id |-> d.id, text |-> d.text, question_type |-> d.question_type,
          points |-> d.points, time_limit |-> d.time_limit,
          options |-> OptionList(OptionsOf(options, question.id))]
    ELSE d

\* send_question called once for each of the two rows under test.
SendQuestion ==
    /\ probe # <<>>
    /\ payload = <<>>
    /\ payload' = <<SendQuestionPayload(probe[1], probe[3]),
                    SendQuestionPayload(probe[2], probe[3])>>
    /\ UNCHANGED <<dbVars, netVars, sessVars, histVars, cntVars, probe, loginVars>>


\* =================================================== process_answer
\* str.upper() / str.lower() on the characters used here.
UpperChar(c) == CASE c = "a" -> "A" [] c = "b" -> "B" [] OTHER -> c
LowerChar(c) == CASE c = "A" -> "a" [] c = "B" -> "b" [] OTHER -> c
Upper(text) == [i \in 1..Len(text) |-> UpperChar(text[i])]
Lower(text) == [i \in 1..Len(text) |-> LowerChar(text[i])]

\* str.strip(): the text without its leading and trailing blanks.
Strip(text) ==
    LET solid == {i \in 1..Len(text) : text[i] # " "} IN
    IF solid = {} THEN <<>>
    ELSE SubSeq(text, CHOOSE i \in solid : \A j \in solid : i <= j,
                      CHOOSE i \in solid : \A j \in solid : i >= j)

\* A comparison that strips the submitted text first.
VerdictStripped(question_type, correct_answer, answer_text) ==
    IF question_type = "MULTIPLE_CHOICE"
    THEN Upper(Strip(answer_text)) = Upper(correct_answer)
    ELSE Lower(Strip(answer_text)) = Lower(correct_answer)

\* Lines 186-192: is_correct from the question's type and correct_answer and
\* the submitted text.
Verdict(question_type, correct_answer, answer_text) ==
    IF question_type = "MULTIPLE_CHOICE"
    THEN Upper(answer_text) = Upper(correct_answer)
    ELSE Lower(answer_text) = Lower(correct_answer)

\* The verdict for a stored question.
Judge(question_id, answer_text) ==
    Verdict(QType(question_id), QCorrect(question_id), answer_text)

\* Lines 186-192 for one question and one submitted text.
JudgeAnswer ==
    /\ probe # <<>>
    /\ payload = <<>>
    /\ payload' = <<Verdict(probe[1], probe[2], probe[3])>>
    /\ UNCHANGED <<dbVars, netVars, sessVars, histVars, cntVars, probe, loginVars>>

\* A lookup by id and activity that leaves out the room.
FindActiveQuestionAnyRoom(question_id, room_id) ==
    /\ question_id \in QuestionIds
    /\ questions[question_id].exists
    /\ questions[question_id].is_active

\* Lines 173-177: the question the answer is for, if it is active in the room.
FindActiveQuestion(question_id, room_id) ==
    /\ question_id \in QuestionIds
    /\ questions[question_id].exists
    /\ questions[question_id].room_id = room_id
    /\ questions[question_id].is_active

\* Lines 181-184: the team's rows for the question.
ExistingAnswers(team_id, question_id) ==
    {a \in answers : a.team_id = team_id /\ a.question_id = question_id}

NewAnswer(team_id, question_id, text, is_correct) ==
    [id |-> Cardinality(answers) + 1, team_id |-> team_id,
     question_id |-> question_id, text |-> text, is_correct |-> is_correct]

\* An upsert that adds a row without looking for an existing one.
InsertAnswer(team_id, question_id, text, is_correct) ==
    answers \cup {NewAnswer(team_id, question_id, text, is_correct)}

\* Lines 194-209: overwrite the existing row (`.first()`), else add one.
UpsertAnswer(team_id, question_id, text, is_correct) ==
    LET existing == ExistingAnswers(team_id, question_id)
    IN  IF existing # {}
        THEN LET row == CHOOSE a \in existing : \A b \in existing : a.id <= b.id
             IN  (answers \ {row}) \cup
                 {[row EXCEPT !.text = text, !.is_correct = is_correct]}
        ELSE answers \cup {NewAnswer(team_id, question_id, text, is_correct)}

\* db.commit() of the handler's session (the session factory of db/database.py
\* is not among the sources; the session is the one the specification
\* describes, holding no cache that outlives a transaction): every object the
\* session holds is expired, so the next read of participation.points or
\* team.total_points loads the committed row again.
ExpireOnCommit(o) == [pts |-> Expired, tot |-> Expired]

\* Attribute reads that return what the session loaded before the commit of
\* the answer row.
AwardReadsLoaded(o, team_id, room_id) ==
    [p |-> OrmRead(o.pts, partPoints[<<team_id, room_id>>]),
     t |-> OrmRead(o.tot, totalPoints[team_id])]

\* Lines 214 and 217: the reads of participation.points and team.total_points
\* by the two `+=`, made after the commit of the answer row (198 / 209).
AwardReads(o, team_id, room_id) ==
    [p |-> OrmRead(ExpireOnCommit(o).pts, partPoints[<<team_id, room_id>>]),
     t |-> OrmRead(ExpireOnCommit(o).tot, totalPoints[team_id])]

\* An award that adds the points to the participation only.
AwardParticipationOnly(team_id, room_id, p, t, points) ==
    [part |-> [partPoints EXCEPT ![<<team_id, room_id>>] = p + points],
     total |-> totalPoints]

\* An award given once per question: nothing is added when the team's stored
\* answer is already marked correct.
AwardFirstCorrectOnly(team_id, room_id, p, t, points) ==
    IF \E a \in answers : a.team_id = team_id /\ a.is_correct
                            /\ questions[a.question_id].room_id = room_id
    THEN [part |-> partPoints, total |-> totalPoints]
    ELSE [part |-> [partPoints EXCEPT ![<<team_id, room_id>>] = p + points],
          total |-> [totalPoints EXCEPT ![team_id] = t + points]]

\* An award that adds the points to the team's total only.
AwardTotalOnly(team_id, room_id, p, t, points) ==
    [part |-> partPoints,
     total |-> [totalPoints EXCEPT ![team_id] = t + points]]

\* Lines 214-219: participation.points += question.points;
\* team.total_points += question.points; db.commit().  p and t are the values
\* the two attribute reads return.
Award(team_id, room_id, p, t, points) ==
    [part |-> [partPoints EXCEPT ![<<team_id, room_id>>] = p + points],
     total |-> [totalPoints EXCEPT ![team_id] = t + points]]

\* Lines 221-226 with the total the row had before the award.
AnswerResultCorrectOldTotal(s, points_earned, total_points) ==
    [type |-> "answer_result_correct", src |-> s, ref |-> total_points,
     correct |-> TRUE, points_earned |-> points_earned,
     total_points |-> total_points - points_earned]

\* Lines 221-226: {"type": "answer_result", "correct": True,
\*   "points_earned": question.points, "total_points": participation.points}
AnswerResultCorrect(s, points_earned, total_points) ==
    [type |-> "answer_result_correct", src |-> s, ref |-> total_points,
     correct |-> TRUE, points_earned |-> points_earned, total_points |-> total_points]

\* Lines 244-248: {"type": "answer_result", "correct": False, "correct_answer": ...}
AnswerResultWrong(s) ==
    [type |-> "answer_result_wrong", src |-> s, ref |-> 0, correct |-> FALSE]

\* The teams that have a participation row for the room.
RoomTeams(room_id) == {t \in Teams : <<t, room_id>> \in Participations}

\* Lines 288-301: the rows of Team joined with TeamRoomParticipation for the
\* room, ORDER BY points DESC; the query names no second key, so rows with
\* equal points come in an order the store chooses.
TeamRankings(room_id, part) ==
    { r \in [1..Cardinality(RoomTeams(room_id)) -> RoomTeams(room_id)] :
        /\ \A i, j \in DOMAIN r : i # j => r[i] # r[j]
        /\ \A i, j \in DOMAIN r :
              i < j => part[<<r[i], room_id>>] >= part[<<r[j], room_id>>] }

\* A leaderboard with standard competition ranking: teams with equal points
\* share the rank of the first of them.
LeaderboardSharedRanks(team_rankings, room_id, part) ==
    [i \in DOMAIN team_rankings |->
        [rank |-> CHOOSE j \in 1..i :
                     /\ part[<<team_rankings[j], room_id>>] = part[<<team_rankings[i], room_id>>]
                     /\ \A k \in 1..(j - 1) :
                           part[<<team_rankings[k], room_id>>] # part[<<team_rankings[i], room_id>>],
         team_id |-> team_rankings[i],
         points |-> part[<<team_rankings[i], room_id>>]]]

\* Lines 304-313: rank from enumerate(team_rankings, 1); the name, picture
\* and slogan of a team never change and are left out.
Leaderboard(team_rankings, room_id, part) ==
    [rank \in DOMAIN team_rankings |->
        [rank |-> rank, team_id |-> team_rankings[rank],
         points |-> part[<<team_rankings[rank], room_id>>]]]

\* Lines 280-283: {"type": "leaderboard", "leaderboard": leaderboard}
LeaderboardSnapshot(leaderboard) ==
    [type |-> "leaderboard", leaderboard |-> leaderboard]

\* Lines 316-322: {"type": "leaderboard_update", "leaderboard": leaderboard};
\* ref is the number of the commit whose handler sends it.
LeaderboardUpdate(s, ref, leaderboard) ==
    [type |-> "leaderboard_update", src |-> s, ref |-> ref, leaderboard |-> leaderboard]

\* send_leaderboard (lines 250-283) and then broadcast_leaderboard (lines
\* 285-322) for the same room on the same stored points: each runs its own
\* query.
ComputeLeaderboards ==
    /\ probe # <<>>
    /\ payload = <<>>
    /\ \E first, second \in TeamRankings(probe[1], probe[2]) :
          payload' = <<LeaderboardSnapshot(Leaderboard(first, probe[1], probe[2])),
                       LeaderboardUpdate(NoSession, 0,
                                         Leaderboard(second, probe[1], probe[2]))>>
    /\ UNCHANGED <<dbVars, netVars, sessVars, histVars, cntVars, probe, loginVars>>


\* A wrong-answer branch that falls through to broadcast_leaderboard.
WrongAnswerReplyThenLeaderboard(n, s, out) ==
    PrivateSend([n EXCEPT !.bMsg[s] = Msg("leaderboard_update", s, commitSeq)],
                s, AnswerResultWrong(s), "answered", out)

\* Lines 230-248: the else branch sends the answer_result on the handler's own
\* connection and returns to the receive loop.
WrongAnswerReply(n, s, out) ==
    PrivateSend(n, s, AnswerResultWrong(s), "loop", out)


\* An answer event arrives (lines 104-113, 161-248).  Everything from
\* receive_text returning to the send of answer_result runs without
\* suspension: lookup, verdict, upsert + commit, award + commit.
RecvAnswer(s, question_id, answer_text, out) ==
    LET team == sessTeam[s]
        room == sessRoom[s]
        is_correct == Judge(question_id, answer_text)
        o1 == ExpireOnCommit(orm[s])
        p == AwardReads(orm[s], team, room).p
        t == AwardReads(orm[s], team, room).t
        points == QPoints(question_id)
        db == Award(team, room, p, t, points)
        o2 == ExpireOnCommit([pts |-> <<p + points>>, tot |-> <<t + points>>])
        total_points == OrmRead(o2.pts, db.part[<<team, room>>])
    IN
    /\ UNCHANGED <<probeVars, loginVars>>
    /\ pc[s] = "loop"
    /\ ~Blocked(s)
    /\ nAnswers < MaxAnswers
    /\ nAnswers' = nAnswers + 1
    /\ IF ~FindActiveQuestion(question_id, room)
       THEN UNCHANGED <<answers, partPoints, totalPoints, orm, netVars,
                        commitSeq, awarded, lastSub>>
       ELSE /\ answers' = UpsertAnswer(team, question_id, answer_text, is_correct)
            /\ lastSub' = [lastSub EXCEPT ![<<team, question_id>>] =
                                <<answer_text, is_correct>>]
            /\ IF is_correct
               THEN /\ partPoints' = db.part
                    /\ totalPoints' = db.total
                    /\ orm' = [orm EXCEPT ![s] = [pts |-> <<total_points>>, tot |-> o2.tot]]
                    /\ commitSeq' = commitSeq + 1
                    /\ awarded' = [awarded EXCEPT ![<<team, room>>] = @ + points]
                    /\ Commit(PrivateSend(
                          [Net EXCEPT !.bMsg[s] = Msg("leaderboard_update", s, commitSeq + 1)],
                          s, AnswerResultCorrect(s, points, total_points), "answered", out))
               ELSE /\ orm' = [orm EXCEPT ![s] = o1]
                    /\ Commit(WrongAnswerReply(Net, s, out))
                    /\ UNCHANGED <<partPoints, totalPoints, commitSeq, awarded>>
    /\ UNCHANGED <<questions, nextQuestionId, sessRoom, sessTeam, alive, stalled, watch,
                   lastOp, prevOp, nChats, nAdmin>>

\* process_answer when the store fails in a db.commit(): the commit of the
\* answer row (lines 198 and 209) or, for a correct answer, the commit of the
\* award (line 219).  SQLAlchemy raises; process_answer has no try, the loop
\* catches json.JSONDecodeError only and the handler WebSocketDisconnect only,
\* so the coroutine ends with the exception and the server closes the
\* connection.  A commit that failed leaves its transaction's rows as they
\* were; the answer row committed before a failing award stays.
RecvAnswerStoreFails(s, question_id, answer_text, failing) ==
    LET team == sessTeam[s]
        room == sessRoom[s]
        is_correct == Judge(question_id, answer_text)
    IN
    /\ UNCHANGED <<probeVars, loginVars>>
    /\ pc[s] = "loop"
    /\ ~Blocked(s)
    /\ alive[s]
    /\ nAnswers < MaxAnswers
    /\ nAnswers' = nAnswers + 1
    /\ FindActiveQuestion(question_id, room)
    /\ failing \in {"answer", "award"}
    /\ failing = "award" => is_correct
    /\ IF failing = "award"
       THEN /\ answers' = UpsertAnswer(team, question_id, answer_text, is_correct)
            /\ lastSub' = [lastSub EXCEPT ![<<team, question_id>>] =
                                <<answer_text, is_correct>>]
       ELSE UNCHANGED <<answers, lastSub>>
    /\ pc' = [pc EXCEPT ![s] = "crashed"]
    /\ alive' = [alive EXCEPT ![s] = FALSE]
    /\ UNCHANGED <<questions, nextQuestionId, partPoints, totalPoints,
                   conns, bIdx, bDet, bMsg, bStart, bGot, bFail, inbox, waitOn,
                   sessRoom, sessTeam, stalled, orm, watch,
                   commitSeq, awarded, lastOp, prevOp, nChats, nAdmin>>

\* Line 229: broadcast_leaderboard queries the rankings and broadcasts them.
BroadcastLeaderboard(s, out) ==
    /\ UNCHANGED <<probeVars, loginVars>>
    /\ pc[s] = "answered"
    /\ ~Blocked(s)
    /\ \E team_rankings \in TeamRankings(sessRoom[s], partPoints) :
          Commit(RunBroadcast(CallBroadcast(Net, s, "bc_lb",
              LeaderboardUpdate(s, bMsg[s].ref,
                  Leaderboard(team_rankings, sessRoom[s], partPoints))), s, out))
    /\ UNCHANGED <<dbVars, sessVars, histVars, cntVars>>

\* =================================================== login
\* Lines 48-51: the team's participation rows for the room.
ParticipationsOf(rows, team_id, room_id) ==
    {p \in rows : p.team_id = team_id /\ p.room_id = room_id}

\* Lines 55-61 and 76-82: INSERT of a row; the id is the table's next
\* AUTO_INCREMENT value (no row is ever deleted).
WithParticipation(rows, team_id, room_id) ==
    rows \cup {[id |-> Cardinality(rows) + 1, team_id |-> team_id, room_id |-> room_id]}

\* A login that adds the team to the room without looking for its row.
JoinRoomAlways(rows, team_id, room_id) == WithParticipation(rows, team_id, room_id)

\* Lines 47-61: an existing team gets a row for the room if it has none.
JoinRoom(rows, team_id, room_id) ==
    IF ParticipationsOf(rows, team_id, room_id) = {}
    THEN WithParticipation(rows, team_id, room_id)
    ELSE rows

\* POST /login (lines 15-96).  The handler is a coroutine without an await:
\* its queries and commits run in one piece on the event loop.
Login(room_id, team_name, password) ==
    LET found == {t \in teamTable : t.name = team_name}
        team == CHOOSE t \in found : TRUE
        new_id == Cardinality(teamTable) + 1
    IN
    /\ IF room_id \notin Rooms
       THEN /\ lastOp' = [op |-> "login_404", q |-> 0, ok |-> FALSE]
            /\ UNCHANGED loginVars
       ELSE IF found # {}
       THEN IF password # team.password
            THEN /\ lastOp' = [op |-> "login_401", q |-> 0, ok |-> FALSE]
                 /\ UNCHANGED loginVars
            ELSE /\ participationTable' = JoinRoom(participationTable, team.id, room_id)
                 /\ lastOp' = [op |-> IF ParticipationsOf(participationTable, team.id,
                                                          room_id) = {}
                                      THEN "login_joined" ELSE "login_again",
                               q |-> team.id, ok |-> TRUE]
                 /\ UNCHANGED teamTable
       ELSE /\ teamTable' = teamTable \cup
                    {[id |-> new_id, name |-> team_name, password |-> password]}
            /\ participationTable' = WithParticipation(participationTable, new_id, room_id)
            /\ lastOp' = [op |-> "login_created", q |-> new_id, ok |-> TRUE]
    /\ prevOp' = lastOp
    /\ UNCHANGED <<dbVars, netVars, sessVars, commitSeq, awarded, lastSub, cntVars,
                   probeVars>>

\* =================================================== specifications
\* The store at start: rooms r1 and r2, teams 1 and 2, the participations
\* above with 0 points, question 1 active and question 2 inactive in r1.
InitStore ==
    /\ questions = [q \in QuestionIds |->
            IF q = 1 THEN [exists |-> TRUE, room_id |-> "r1", is_active |-> TRUE]
            ELSE IF q = 2 THEN [exists |-> TRUE, room_id |-> "r1", is_active |-> FALSE]
            ELSE NoQuestion]
    /\ nextQuestionId = 3

\* The process after start-up: no connection, nothing answered.
InitSessions ==
    /\ answers = {}
    /\ partPoints = [k \in Participations |-> 0]
    /\ totalPoints = [t \in Teams |-> 0]
    /\ orm = [s \in Sessions |-> [pts |-> Expired, tot |-> Expired]]
    /\ conns = [r \in Rooms |-> <<>>]
    /\ pc = [s \in Sessions |-> "new"]
    /\ sessRoom = [s \in Sessions |-> NoRoom]
    /\ sessTeam = [s \in Sessions |-> 0]
    /\ alive = [s \in Sessions |-> TRUE]
    /\ stalled = {}
    /\ waitOn = [s \in Sessions |-> NoSession]
    /\ bIdx = [s \in Sessions |-> 0]
    /\ bDet = [s \in Sessions |-> FALSE]
    /\ bMsg = [s \in Sessions |-> NoMsg]
    /\ bStart = [s \in Sessions |-> <<>>]
    /\ bGot = [s \in Sessions |-> {}]
    /\ bFail = [s \in Sessions |-> {}]
    /\ inbox = [s \in Sessions |-> <<>>]
    /\ commitSeq = 0
    /\ awarded = [k \in Participations |-> 0]
    /\ lastSub = [k \in Teams \X QuestionIds |-> <<>>]
    /\ lastOp = NoOp
    /\ prevOp = NoOp
    /\ nAnswers = 0 /\ nChats = 0 /\ nAdmin = 0
    /\ teamTable = {} /\ participationTable = {}

InitRest == InitSessions /\ probe = <<>> /\ payload = <<>>

EventTypes == {"team_info", "system_message_joined", "system_message_left",
               "leaderboard", "leaderboard_update", "question", "chat",
               "answer_result_correct", "answer_result_wrong"}

Init == InitStore /\ InitRest /\ watch = EventTypes

\* Any question table in which every room has at most one active question.
InitAnyQuestions ==
    /\ nextQuestionId \in QuestionIds \cup {4}
    /\ questions \in [QuestionIds -> [exists : {TRUE}, room_id : Rooms, is_active : BOOLEAN]
                                     \cup {NoQuestion}]
    /\ \A q \in QuestionIds : questions[q].exists => q < nextQuestionId
    /\ \A r \in Rooms : Cardinality(ActiveIn(r)) <= 1

InitDirector == InitAnyQuestions /\ InitRest /\ watch = {}

\* A question-management request while connections are being served.
Admin(Request) ==
    /\ nAdmin < MaxAdminOps
    /\ prevOp' = lastOp
    /\ nAdmin' = nAdmin + 1
    /\ UNCHANGED <<nAnswers, nChats, probeVars, loginVars>>
    /\ Request

\* A question-management request on its own.
Only(Request) == Request /\ prevOp' = lastOp /\ UNCHANGED <<cntVars, probeVars, loginVars>>

UpdateRooms == Rooms \cup {Keep}
UpdateFlags == {Keep, "true", "false"}

Next ==
    \/ \E s \in Sessions, r \in RoomIds, t \in TeamIds : Connect(s, r, t)
    \/ \E s \in Sessions : Register(s)
    \/ \E s \in Sessions : ClientDrop(s)
    \/ \E s \in Sessions : ClientStall(s)
    \/ \E s \in Sessions : RecvDisconnect(s)
    \/ \E s \in Sessions : RecvNonObject(s)
    \/ \E s \in Sessions, out \in SendOutcomes : AnnounceJoin(s, out)
    \/ \E s \in Sessions, out \in SendOutcomes : BroadcastResume(s, out)
    \/ \E s \in Sessions, out \in SendOutcomes : SendActiveQuestion(s, out)
    \/ \E s \in Sessions, out \in SendOutcomes : RecvChat(s, out)
    \/ \E s \in Sessions, out \in SendOutcomes : BroadcastLeaderboard(s, out)
    \/ \E s \in Sessions, out \in SendOutcomes, q \in QuestionIds, a \in Texts :
          RecvAnswer(s, q, a, out)
    \/ \E q \in QuestionIds, b \in BOOLEAN : Admin(SetQuestionActive(q, b))
    \/ \E r \in Rooms, b \in BOOLEAN : Admin(CreateQuestion(r, b))
    \/ \E q \in QuestionIds, r \in UpdateRooms, b \in UpdateFlags :
          Admin(UpdateQuestion(q, r, b))
    \/ \E q \in QuestionIds : Admin(DeleteQuestion(q))

Spec == Init /\ [][Next]_vars

\* Only activate / deactivate requests, from any admissible question table.
NextActivate ==
    \/ \E q \in QuestionIds : Only(SetQuestionActive(q, TRUE))
    \/ \E q \in QuestionIds : Only(SetQuestionActive(q, FALSE))

SpecActivate == InitDirector /\ [][NextActivate]_vars

\* All question-mutating requests, from any admissible question table.
NextDirector ==
    \/ \E q \in QuestionIds, b \in BOOLEAN : Only(SetQuestionActive(q, b))
    \/ \E r \in Rooms, b \in BOOLEAN : Only(CreateQuestion(r, b))
    \/ \E q \in QuestionIds, r \in UpdateRooms, b \in UpdateFlags :
          Only(UpdateQuestion(q, r, b))
    \/ \E q \in QuestionIds : Only(DeleteQuestion(q))

SpecDirector == InitDirector /\ [][NextDirector]_vars


\* ------------------------------------------- restricted environments
\* The specifications below run the same handlers with fewer clients and
\* fewer kinds of client event, so that every interleaving can be explored.
\* Two clients connect; s1 is team 1 in r1, s2 is another connection of team
\* 1 or one of team 2 in r1, a connection to r2, or one to a missing room.
Clients == {"s1", "s2"}
Urls(s) == IF s = "s1" THEN {<<"r1", 1>>}
           ELSE {<<"r1", 1>>, <<"r1", 2>>, <<"r2", 1>>, <<"r0", 1>>}

\* Registry and broadcast: connections come, chat and go; no answers, no
\* question management; the inboxes record the chat events.
InitRegistry == InitStore /\ InitRest /\ watch = {"chat"}

NextRegistry ==
    \/ \E s \in Clients : \E u \in Urls(s) : Connect(s, u[1], u[2])
    \/ \E s \in Clients : Register(s)
    \/ \E s \in Clients : ClientDrop(s)
    \/ \E s \in Clients : RecvDisconnect(s)
    \/ \E s \in Clients, out \in SendOutcomes : AnnounceJoin(s, out)
    \/ \E s \in Clients, out \in SendOutcomes : BroadcastResume(s, out)
    \/ \E s \in Clients, out \in SendOutcomes : SendActiveQuestion(s, out)
    \/ \E s \in Clients, out \in SendOutcomes : RecvChat(s, out)
    \/ \E s \in Clients : RecvNonObject(s)

SpecRegistry == InitRegistry /\ [][NextRegistry]_vars

\* Answers and awards: connections come, answer and go; no chat, no question
\* management; the inboxes record the leaderboard updates.
InitScore == InitStore /\ InitRest /\ watch = {"leaderboard_update"}

NextScore ==
    \/ \E s \in Clients : \E u \in Urls(s) : Connect(s, u[1], u[2])
    \/ \E s \in Clients : Register(s)
    \/ \E s \in Clients : ClientDrop(s)
    \/ \E s \in Clients : RecvDisconnect(s)
    \/ \E s \in Clients, out \in SendOutcomes : AnnounceJoin(s, out)
    \/ \E s \in Clients, out \in SendOutcomes : BroadcastResume(s, out)
    \/ \E s \in Clients, out \in SendOutcomes : SendActiveQuestion(s, out)
    \/ \E s \in Clients, out \in SendOutcomes : BroadcastLeaderboard(s, out)
    \/ \E s \in Clients, out \in SendOutcomes, q \in QuestionIds, a \in Texts :
          RecvAnswer(s, q, a, out)

SpecScore == InitScore /\ [][NextScore]_vars

\* Departures: the registry's environment, the inboxes record the "left"
\* announcements.
InitLeave == InitStore /\ InitRest /\ watch = {"system_message_left"}

SpecLeave == InitLeave /\ [][NextRegistry]_vars

\* Entry: connections with any path parameters come, chat and go while
\* questions are activated and deactivated; the inboxes record every event.
AnyUrls(s) == IF s = "s1" THEN {<<"r1", 1>>} ELSE RoomIds \X TeamIds

NextEntry ==
    \/ \E s \in Clients : \E u \in AnyUrls(s) : Connect(s, u[1], u[2])
    \/ \E s \in Clients : Register(s)
    \/ \E s \in Clients : ClientDrop(s)
    \/ \E s \in Clients : RecvDisconnect(s)
    \/ \E s \in Clients, out \in SendOutcomes : AnnounceJoin(s, out)
    \/ \E s \in Clients, out \in SendOutcomes : BroadcastResume(s, out)
    \/ \E s \in Clients, out \in SendOutcomes : SendActiveQuestion(s, out)
    \/ \E q \in QuestionIds, b \in BOOLEAN : Admin(SetQuestionActive(q, b))

SpecEntry == Init /\ [][NextEntry]_vars

\* Welcome: connections come, chat and go; the inboxes record every event.
NextWelcome ==
    \/ \E s \in Clients : \E u \in Urls(s) : Connect(s, u[1], u[2])
    \/ \E s \in Clients : Register(s)
    \/ \E s \in Clients : ClientDrop(s)
    \/ \E s \in Clients : RecvDisconnect(s)
    \/ \E s \in Clients, out \in SendOutcomes : AnnounceJoin(s, out)
    \/ \E s \in Clients, out \in SendOutcomes : BroadcastResume(s, out)
    \/ \E s \in Clients, out \in SendOutcomes : SendActiveQuestion(s, out)
    \/ \E s \in Clients, out \in SendOutcomes : RecvChat(s, out)

SpecWelcome == Init /\ [][NextWelcome]_vars

\* Slow clients: the registry's environment plus clients that stop reading.
\* The event loop resumes every coroutine that is ready, so each handler's
\* own steps are weakly fair; what clients do (connect, send, stall, drop) is
\* not.
HandlerStep(s) ==
    \/ Register(s)
    \/ RecvDisconnect(s)
    \/ \E out \in SendOutcomes : AnnounceJoin(s, out)
    \/ \E out \in SendOutcomes : BroadcastResume(s, out)
    \/ \E out \in SendOutcomes : SendActiveQuestion(s, out)

NextStall ==
    \/ \E s \in Clients : \E u \in Urls(s) : Connect(s, u[1], u[2])
    \/ \E s \in Clients : Register(s)
    \/ \E s \in Clients : ClientDrop(s)
    \/ \E s \in Clients : ClientStall(s)
    \/ \E s \in Clients : RecvDisconnect(s)
    \/ \E s \in Clients, out \in SendOutcomes : AnnounceJoin(s, out)
    \/ \E s \in Clients, out \in SendOutcomes : BroadcastResume(s, out)
    \/ \E s \in Clients, out \in SendOutcomes : SendActiveQuestion(s, out)
    \/ \E s \in Clients, out \in SendOutcomes : RecvChat(s, out)

SpecStall ==
    InitRegistry /\ [][NextStall]_vars /\ \A s \in Clients : WF_vars(HandlerStep(s))


\* Answers to the active question 1, right ("b") and wrong ("a"), with the
\* inboxes recording the answer results and the leaderboard updates.
InitAnswer ==
    /\ InitStore /\ InitRest
    /\ watch = {"answer_result_correct", "answer_result_wrong", "leaderboard_update"}

\* s1 is a session of team 1 and s2 a session of team 2 or of team 1, in r1.
AnswerUrls(s) == IF s = "s1" THEN {<<"r1", 1>>} ELSE {<<"r1", 2>>, <<"r1", 1>>}

NextAnswer ==
    \/ \E s \in Clients : \E u \in AnswerUrls(s) : Connect(s, u[1], u[2])
    \/ \E s \in Clients : Register(s)
    \/ \E s \in Clients : ClientDrop(s)
    \/ \E s \in Clients : RecvDisconnect(s)
    \/ \E s \in Clients, out \in SendOutcomes : AnnounceJoin(s, out)
    \/ \E s \in Clients, out \in SendOutcomes : BroadcastResume(s, out)
    \/ \E s \in Clients, out \in SendOutcomes : SendActiveQuestion(s, out)
    \/ \E s \in Clients, out \in SendOutcomes : BroadcastLeaderboard(s, out)
    \/ \E s \in Clients, out \in SendOutcomes, a \in {<<"b">>, <<"a">>} :
          RecvAnswer(s, 1, a, out)

SpecAnswer == InitAnswer /\ [][NextAnswer]_vars


\* Late answers: sessions in r1 and r2, questions activated and deactivated,
\* and clients that send only answers whose question_id names no question that
\* is active in their room; the inboxes record answer results and leaderboards.
NextLate ==
    \/ \E s \in Clients : \E u \in Urls(s) : Connect(s, u[1], u[2])
    \/ \E s \in Clients : Register(s)
    \/ \E s \in Clients : ClientDrop(s)
    \/ \E s \in Clients : RecvDisconnect(s)
    \/ \E s \in Clients, out \in SendOutcomes : AnnounceJoin(s, out)
    \/ \E s \in Clients, out \in SendOutcomes : BroadcastResume(s, out)
    \/ \E s \in Clients, out \in SendOutcomes : SendActiveQuestion(s, out)
    \/ \E q \in QuestionIds, b \in BOOLEAN : Admin(SetQuestionActive(q, b))
    \/ \E s \in Clients, out \in SendOutcomes, q \in QuestionIds, a \in Texts :
          /\ pc[s] = "loop"
          /\ ~(/\ questions[q].exists /\ questions[q].is_active
               /\ questions[q].room_id = sessRoom[s])
          /\ RecvAnswer(s, q, a, out)

SpecLate == InitAnswer /\ [][NextLate]_vars


\* Fallback: clients whose payloads are never well-formed chat or answer events:
\* text that is not JSON (RecvChat through json.JSONDecodeError) and JSON objects
\* with a missing or unknown type.
NextFallback ==
    \/ \E s \in Clients : \E u \in Urls(s) : Connect(s, u[1], u[2])
    \/ \E s \in Clients : Register(s)
    \/ \E s \in Clients : ClientDrop(s)
    \/ \E s \in Clients : RecvDisconnect(s)
    \/ \E s \in Clients, out \in SendOutcomes : AnnounceJoin(s, out)
    \/ \E s \in Clients, out \in SendOutcomes : BroadcastResume(s, out)
    \/ \E s \in Clients, out \in SendOutcomes : SendActiveQuestion(s, out)
    \/ \E s \in Clients, out \in SendOutcomes : RecvChat(s, out)
    \/ \E s \in Clients : RecvUnknownType(s)

SpecFallback == InitRegistry /\ [][NextFallback]_vars


\* ---- ConnectionManager.disconnect on its own: a registry whose keys are some
\* of the rooms, each with a non-empty list of distinct connections (connect
\* appends a connection once, disconnect deletes a list that became empty), a
\* connection and a room id.
ConnectionLists ==
    { l \in UNION {[1..n -> Sessions] : n \in 1..Cardinality(Sessions)} :
        \A i, j \in 1..Len(l) : i # j => l[i] # l[j] }
Registries == UNION {[K -> ConnectionLists] : K \in SUBSET Rooms}

InitDisconnect ==
    /\ InitStore /\ InitSessions
    /\ watch = {}
    /\ probe \in Registries \X Sessions \X RoomIds
    /\ payload = <<>>

NextDisconnect == Disconnect

SpecDisconnect == InitDisconnect /\ [][NextDisconnect]_vars


\* ---- the leaderboard on its own: a room and the points of the participation
\* rows; the private snapshot and the broadcast update are computed one after
\* the other with nothing in between.
PointValues == {0, 5, 10, 15}

InitLeaderboard ==
    /\ InitStore /\ InitSessions
    /\ watch = {}
    /\ probe \in Rooms \X [Participations -> PointValues]
    /\ payload = <<>>

NextLeaderboard == ComputeLeaderboards

SpecLeaderboard == InitLeaderboard /\ [][NextLeaderboard]_vars


\* ---- the verdict on its own: a question type, a correct answer and a
\* submitted text, each text of up to MaxText characters, blanks included.
MaxText == 2
Chars == {"a", "A", "b", "B", " "}
AnswerTexts == UNION {[1..n -> Chars] : n \in 0..MaxText}

InitJudge ==
    /\ InitStore /\ InitSessions
    /\ watch = {}
    /\ probe \in {"MULTIPLE_CHOICE", "TEXT"} \X AnswerTexts \X AnswerTexts
    /\ payload = <<>>

NextJudge == JudgeAnswer

SpecJudge == InitJudge /\ [][NextJudge]_vars


\* ---- logins: teams log in to the rooms, again and again, with right and wrong
\* passwords, in any order.
TeamNames == {"alpha", "bravo"}
Passwords == {"secret", "guess"}

NextLogin ==
    \E room_id \in RoomIds, team_name \in TeamNames, password \in Passwords :
        Login(room_id, team_name, password)

InitLogin == InitStore /\ InitRest /\ watch = {}

SpecLogin == InitLogin /\ [][NextLogin]_vars


\* Store failures: sessions that stay connected answer question 1, and any
\* commit of process_answer may fail.
NextStoreFailure ==
    \/ \E s \in Clients : \E u \in AnswerUrls(s) : Connect(s, u[1], u[2])
    \/ \E s \in Clients : Register(s)
    \/ \E s \in Clients, out \in SendOutcomes : AnnounceJoin(s, out)
    \/ \E s \in Clients, out \in SendOutcomes : BroadcastResume(s, out)
    \/ \E s \in Clients, out \in SendOutcomes : SendActiveQuestion(s, out)
    \/ \E s \in Clients, out \in SendOutcomes : BroadcastLeaderboard(s, out)
    \/ \E s \in Clients, out \in SendOutcomes, a \in {<<"b">>, <<"a">>} :
          RecvAnswer(s, 1, a, out)
    \/ \E s \in Clients, a \in {<<"b">>, <<"a">>}, failing \in {"answer", "award"} :
          RecvAnswerStoreFails(s, 1, a, failing)

SpecStoreFailure == InitAnswer /\ [][NextStoreFailure]_vars

\* ---- send_question on its own: two rows of table questions that differ only in
\* the column correct_answer, and a table question_options.
ProbeAnswers == {"A", "B", "madrid"}
ProbeTimeLimits == {-1, 30}        \* -1 stands for NULL (time_limit is nullable)
ProbeOptionTables ==
    { <<>>,
      <<[id |-> 1, question_id |-> 1, option_letter |-> "A", option_text |-> "Paris"],
        [id |-> 2, question_id |-> 1, option_letter |-> "B", option_text |-> "Madrid"]>>,
      <<[id |-> 1, question_id |-> 2, option_letter |-> "A", option_text |-> "Madrid"],
        [id |-> 2, question_id |-> 1, option_letter |-> "A", option_text |-> "Rome"],
        [id |-> 3, question_id |-> 2, option_letter |-> "B", option_text |-> "Paris"]>> }

QuestionRow(id, text, question_type, correct_answer, points, time_limit) ==
    [id |-> id, room_id |-> "r1", text |-> text, question_type |-> question_type,
     correct_answer |-> correct_answer, points |-> points, time_limit |-> time_limit,
     is_active |-> TRUE]

ProbePairs ==
    { <<QuestionRow(id, text, ty, c1, pts, tl), QuestionRow(id, text, ty, c2, pts, tl), opts>> :
        id \in {1, 2}, text \in {"capital of Spain?", "capital of France?"},
        ty \in {"MULTIPLE_CHOICE", "TEXT"}, c1 \in ProbeAnswers,
        c2 \in ProbeAnswers, pts \in {1, 5}, tl \in ProbeTimeLimits,
        opts \in ProbeOptionTables }

InitPayload ==
    /\ InitStore /\ InitSessions
    /\ watch = {}
    /\ probe \in {pr \in ProbePairs : pr[1].correct_answer # pr[2].correct_answer}
    /\ payload = <<>>

NextPayload == SendQuestion

SpecPayload == InitPayload /\ [][NextPayload]_vars


\* Activation while participants are connected: the registry's environment
\* plus activate / deactivate requests; the inboxes record the question
\* events.  The event loop resumes every handler that is ready.
InitFanOut == InitStore /\ InitRest /\ watch = {"question"}

NextFanOut ==
    \/ \E s \in Clients : \E u \in Urls(s) : Connect(s, u[1], u[2])
    \/ \E s \in Clients : Register(s)
    \/ \E s \in Clients : ClientDrop(s)
    \/ \E s \in Clients : RecvDisconnect(s)
    \/ \E s \in Clients, out \in SendOutcomes : AnnounceJoin(s, out)
    \/ \E s \in Clients, out \in SendOutcomes : BroadcastResume(s, out)
    \/ \E s \in Clients, out \in SendOutcomes : SendActiveQuestion(s, out)
    \/ \E q \in QuestionIds, b \in BOOLEAN : Admin(SetQuestionActive(q, b))

SpecFanOut ==
    InitFanOut /\ [][NextFanOut]_vars /\ \A s \in Clients : WF_vars(HandlerStep(s))


\* Two rooms: s1 is a session of team 1 in r1, s2 a session of team 1 in r2 or
\* of team 2 in r1; they come, chat, answer question 1 correctly (one award)
\* and go; the inboxes record the events that are broadcast to a room.
RoomUrls(s) == IF s = "s1" THEN {<<"r1", 1>>} ELSE {<<"r2", 1>>, <<"r1", 2>>}

InitRooms ==
    /\ InitStore /\ InitRest
    /\ watch = {"chat", "system_message_joined", "system_message_left", "leaderboard_update"}

NextRooms ==
    \/ \E s \in Clients : \E u \in RoomUrls(s) : Connect(s, u[1], u[2])
    \/ \E s \in Clients : Register(s)
    \/ \E s \in Clients : ClientDrop(s)
    \/ \E s \in Clients : RecvDisconnect(s)
    \/ \E s \in Clients, out \in SendOutcomes : AnnounceJoin(s, out)
    \/ \E s \in Clients, out \in SendOutcomes : BroadcastResume(s, out)
    \/ \E s \in Clients, out \in SendOutcomes : SendActiveQuestion(s, out)
    \/ \E s \in Clients, out \in SendOutcomes : RecvChat(s, out)
    \/ \E s \in Clients, out \in SendOutcomes :
          commitSeq = 0 /\ RecvAnswer(s, 1, <<"b">>, out)
    \/ \E s \in Clients, out \in SendOutcomes : BroadcastLeaderboard(s, out)

SpecRooms == InitRooms /\ [][NextRooms]_vars


\* Totals: a store with an active question in each room (question 1 in r1,
\* question 2 in r2); team 1 plays in both rooms, team 2 in r1; answers right
\* and wrong, from one or two sessions of a team, and commits that fail.
InitTotals ==
    /\ questions = [q \in QuestionIds |->
            IF q = 1 THEN [exists |-> TRUE, room_id |-> "r1", is_active |-> TRUE]
            ELSE IF q = 2 THEN [exists |-> TRUE, room_id |-> "r2", is_active |-> TRUE]
            ELSE NoQuestion]
    /\ nextQuestionId = 3
    /\ InitRest
    /\ watch = {}

TotalsUrls(s) == IF s = "s1" THEN {<<"r1", 1>>} ELSE {<<"r2", 1>>, <<"r1", 2>>, <<"r1", 1>>}

NextTotals ==
    \/ \E s \in Clients : \E u \in TotalsUrls(s) : Connect(s, u[1], u[2])
    \/ \E s \in Clients : Register(s)
    \/ \E s \in Clients : ClientDrop(s)
    \/ \E s \in Clients : RecvDisconnect(s)
    \/ \E s \in Clients, out \in SendOutcomes : AnnounceJoin(s, out)
    \/ \E s \in Clients, out \in SendOutcomes : BroadcastResume(s, out)
    \/ \E s \in Clients, out \in SendOutcomes : SendActiveQuestion(s, out)
    \/ \E s \in Clients, out \in SendOutcomes : BroadcastLeaderboard(s, out)
    \/ \E s \in Clients, out \in SendOutcomes, q \in {1, 2}, a \in {<<"b">>, <<"a">>} :
          RecvAnswer(s, q, a, out)
    \/ \E s \in Clients, q \in {1, 2}, a \in {<<"b">>, <<"a">>},
          failing \in {"answer", "award"} : RecvAnswerStoreFails(s, q, a, failing)

SpecTotals == InitTotals /\ [][NextTotals]_vars


\* =================================================== claims
\* Questions that exist in room r.
QuestionsIn(r) == {q \in QuestionIds : questions[q].exists /\ questions[q].room_id = r}

\* C1: starting from a question table in which every room has at most one
\* active question, after any sequence of activate / deactivate requests
\* every room has zero or one active question.
C1_AtMostOneActivePerRoom ==
    \A r \in Rooms : Cardinality(ActiveIn(r)) <= 1

\* C1 witness: an activation has just replaced the active question of a room
\* that holds at least two questions.
C1_Witness ==
    /\ lastOp.op = "activate" /\ prevOp.op = "activate" /\ prevOp.q # lastOp.q
    /\ questions[prevOp.q].exists
    /\ questions[prevOp.q].room_id = questions[lastOp.q].room_id
    /\ ActiveIn(questions[lastOp.q].room_id) = {lastOp.q}

\* C2: at most one question per room is active at any time, under every
\* sequence of create_question, update_question, set_question_active and
\* delete_question requests.
C2_NoTwoActiveInARoom ==
    \A q1, q2 \in QuestionIds :
        (/\ questions[q1].exists /\ questions[q1].is_active
         /\ questions[q2].exists /\ questions[q2].is_active
         /\ questions[q1].room_id = questions[q2].room_id) => q1 = q2

\* C3: activations of different questions of one room resolve to a single
\* winner: after an activation has committed, the question it activated is
\* the one and only active question of its room, whatever was activated
\* before it.
C3_LastActivationWins ==
    (lastOp.op = "activate" /\ lastOp.ok) =>
        ActiveIn(questions[lastOp.q].room_id) = {lastOp.q}

\* C3 witness: two activations of different questions of the same room have
\* committed one after the other; the second one's question is active, the
\* first one's is not.
C3_Witness ==
    /\ prevOp.op = "activate" /\ lastOp.op = "activate"
    /\ prevOp.q # lastOp.q
    /\ questions[prevOp.q].exists /\ questions[lastOp.q].exists
    /\ questions[prevOp.q].room_id = questions[lastOp.q].room_id
    /\ questions[lastOp.q].is_active
    /\ ~questions[prevOp.q].is_active
    /\ Cardinality(QuestionsIn(questions[lastOp.q].room_id)) = 3

\* Rooms team t participates in.
RoomsOf(t) == {r \in Rooms : <<t, r>> \in Participations}

\* Sum of f[<<t, r>>] over the rooms rs.
RECURSIVE SumOverRooms(_, _, _)
SumOverRooms(f, t, rs) ==
    IF rs = {} THEN 0
    ELSE LET r == CHOOSE x \in rs : TRUE
         IN  f[<<t, r>>] + SumOverRooms(f, t, rs \ {r})

\* Handlers that have committed an award and not yet finished announcing it.
Announcing == {s \in Clients : pc[s] \in {"answered", "bc_lb"}}

\* C4: no award is lost.  `awarded` adds up the points of every correct answer
\* processed for a participation; whatever the interleaving of the handlers,
\* Participation.points equals that sum and Team.total_points equals the sum
\* over the team's rooms.
C4_NoAwardLost ==
    /\ \A k \in Participations : partPoints[k] = awarded[k]
    /\ \A t \in Teams : totalPoints[t] = SumOverRooms(awarded, t, RoomsOf(t))

\* Two sessions of team 1 in r1 have both had a correct answer (5 points each)
\* processed and both handlers are still in flight.
C4_Witness ==
    /\ Announcing = {"s1", "s2"}
    /\ sessTeam["s1"] = sessTeam["s2"] /\ sessRoom["s1"] = sessRoom["s2"]
    /\ awarded[<<1, "r1">>] = 10
    /\ partPoints[<<1, "r1">>] = 10 /\ totalPoints[1] = 10

\* C5: in every step, Team.total_points of each team advances by exactly as much
\* as the team's Participation.points do; no committed state has one of the
\* two advanced and the other not.
C5_AwardedTogether ==
    [][\A t \in Teams :
          totalPoints'[t] - totalPoints[t] =
              SumOverRooms(partPoints', t, RoomsOf(t)) - SumOverRooms(partPoints, t, RoomsOf(t))]_vars

\* One award of 5 points has been committed: both counters show it.
C5_Witness ==
    /\ commitSeq = 1
    /\ partPoints[<<1, "r1">>] = 5 /\ totalPoints[1] = 5

\* C6: a (team, question) pair nobody submitted for has no Answer row; a pair
\* with submissions has exactly one, carrying the text and the verdict of the
\* submission processed last.
C6_OneAnswerRowPerPair ==
    \A t \in Teams, q \in QuestionIds :
        IF lastSub[<<t, q>>] = <<>>
        THEN ExistingAnswers(t, q) = {}
        ELSE /\ Cardinality(ExistingAnswers(t, q)) = 1
             /\ \A a \in ExistingAnswers(t, q) :
                   /\ a.text = lastSub[<<t, q>>][1]
                   /\ a.is_correct = lastSub[<<t, q>>][2]

\* Two sessions of team 1 submitted for question 1: the first, correct, is
\* still announcing its award when the other's wrong answer overwrites the row.
C6_Witness ==
    /\ Announcing # {}
    /\ sessTeam["s1"] = 1 /\ sessTeam["s2"] = 1
    /\ nAnswers = 2
    /\ lastSub[<<1, 1>>] # <<>> /\ ~lastSub[<<1, 1>>][2]
    /\ Cardinality(ExistingAnswers(1, 1)) = 1

\* C9: leaderboard updates are numbered by the commit of the award that
\* triggered them; every member receives them in increasing order.
C9_BroadcastsInCommitOrder ==
    \A s \in Sessions : \A i, j \in 1..Len(inbox[s]) :
        i < j => inbox[s][i].ref < inbox[s][j].ref

\* The step in which handler h's broadcast returns: its iterator is exhausted
\* and the handler goes on.
Finishing(h) == pc[h] \in BroadcastPcs /\ pc'[h] # pc[h]

\* Members of the list at call time that are still registered and connected.
Stayed(h) == {m \in Members(bStart[h]) : m \in Members(conns[sessRoom[h]]) /\ alive[m]}

\* C7: when a broadcast returns, every session that was in the room's list at
\* call time and stayed connected has been sent the event, whatever
\* disconnects happened while the broadcast was iterating.
C7_ReachesAllWhoStay ==
    [][\A h \in Clients : Finishing(h) => Stayed(h) \subseteq (bGot[h] \ bFail[h])]_vars

\* C8: a broadcast sends only to the sessions that were in the room's list
\* when it was called; a session that registers later does not get the event.
C8_IteratesSnapshot ==
    \A h \in Clients : pc[h] \in BroadcastPcs => bGot[h] \subseteq Members(bStart[h])

\* A delivery of handler h's broadcast fails in this step.
FailsNow(h) == bFail'[h] # {} /\ bFail'[h] # bFail[h]

\* C10: a failed delivery leaves the caller inside the broadcast (nothing is
\* raised to it), and a broadcast that had a failed delivery has, when it
\* returns, attempted every other recipient of the room.
C10_FailureIsolated ==
    [][\A h \in Clients :
          /\ FailsNow(h) => pc'[h] \in BroadcastPcs
          /\ (Finishing(h) /\ bFail[h] # {}) =>
                 \A m \in Members(bStart[h]) :
                     m \in Members(conns[sessRoom[h]]) => m \in bGot[h]]_vars

\* The live set of the room connection s asked for.
LiveSet(s) == IF sessRoom[s] \in Rooms THEN Members(conns[sessRoom[s]]) ELSE {}

\* Member m is still to be served by handler h's running broadcast.
StillToServe(h, m) ==
    /\ pc[h] \in BroadcastPcs
    /\ m \in Members(IterList(Net, h)) /\ m \notin bGot[h]
    /\ alive[m] /\ m \notin stalled

\* C11: a recipient whose send does not complete does not stall a broadcast:
\* every other member still to be served is eventually sent the event (or has
\* left meanwhile, or the broadcast has returned), and a stalled recipient that
\* another session's handler waits on is eventually removed from the room's
\* list (or the wait ends).
C11_SlowClientDoesNotStall ==
    /\ \A h, m \in Clients :
          StillToServe(h, m) ~>
              (m \in bGot[h] \/ pc[h] \notin BroadcastPcs \/ ~alive[m]
                 \/ m \notin LiveSet(h))
    /\ \A h, m \in Clients :
          (h # m /\ waitOn[h] = m /\ alive[m]) ~> (m \notin LiveSet(m) \/ waitOn[h] # m)

\* C12: a failed delivery disconnects its recipient: when the broadcast
\* returns, no recipient whose send failed during it is left in the room's live
\* set (so no later broadcast to the room attempts it).
C12_FailureDisconnectsRecipient ==
    [][\A h \in Clients :
          Finishing(h) => \A m \in bFail[h] : m \notin Members(conns'[sessRoom[h]])]_vars

\* The coroutine of connection s has ended.
Terminated(s) == pc[s] \in {"closed", "crashed"}

\* C13: however a session's handler ends, the cleanup has run: no terminated
\* session is in a room's live set.
C13_NoTerminatedSessionRegistered ==
    \A s \in Clients : Terminated(s) => s \notin LiveSet(s)

\* Positions in m's inbox of the "left" announcement of session s.
LeftEvents(m, s) ==
    {i \in 1..Len(inbox[m]) : inbox[m][i].type = "system_message_left" /\ inbox[m][i].src = s}

\* C14: after an Active session's transport dropped and its handler ended, the
\* session is out of the live set; its "left" announcement reaches nobody
\* twice and never the departed session; and when the announcing broadcast
\* returns, every remaining member has been sent it.
C14_LeftAnnouncedOnce ==
    /\ [](\A s \in Clients : (Terminated(s) /\ ~alive[s]) => s \notin LiveSet(s))
    /\ [](\A s, m \in Clients : Cardinality(LeftEvents(m, s)) <= 1 /\ LeftEvents(s, s) = {})
    /\ [][\A s \in Clients :
             (Finishing(s) /\ pc[s] = "bc_left") => Stayed(s) \subseteq (bGot[s] \ bFail[s])]_vars

\* Valid path parameters: the room exists, the team exists and takes part.
ValidPath(room_id, team_id) ==
    room_id \in Rooms /\ team_id \in Teams /\ <<team_id, room_id>> \in Participations

\* Connection s is refused in this step.
Refused(s) == pc[s] = "new" /\ pc'[s] = "rejected"

\* C15: only connections with valid path parameters get past the validation;
\* a refused connection is in no live set and has received nothing, and the
\* step that refuses it changes no live set, no inbox, no broadcast and no row.
C15_RejectMutatesNothing ==
    /\ [](\A s \in Clients :
            /\ pc[s] \notin {"new", "rejected"} => ValidPath(sessRoom[s], sessTeam[s])
            /\ pc[s] = "rejected" =>
                  /\ inbox[s] = <<>>
                  /\ \A r \in Rooms : s \notin Members(conns[r]))
    /\ [][\A s \in Clients :
             Refused(s) =>
                 /\ conns' = conns /\ inbox' = inbox
                 /\ bMsg' = bMsg /\ bGot' = bGot
                 /\ \A o \in Clients \ {s} : pc'[o] = pc[o]
                 /\ UNCHANGED dbVars]_vars

\* s2 has been refused while s1 is registered in r1.
C15_Witness ==
    /\ pc["s2"] = "rejected"
    /\ conns["r1"] = <<"s1">>
    /\ inbox["s1"] # <<>>

\* The events of connection s's own entry and of its own chat, in the order
\* its client received them.
EntryTypes == {"team_info", "system_message_joined", "leaderboard", "question"}
OwnEvents(s) ==
    SelectSeq(inbox[s], LAMBDA e : e.src = s /\ e.type \in EntryTypes \cup {"chat"})

\* Position of an event in the entry sequence (inbound events come after it).
EntryRank(type) ==
    CASE type = "team_info" -> 1
      [] type = "system_message_joined" -> 2
      [] type = "leaderboard" -> 3
      [] type = "question" -> 4
      [] OTHER -> 5

\* Connection s has received its own event of this type.
HasOwn(s, type) == \E i \in 1..Len(OwnEvents(s)) : OwnEvents(s)[i].type = type

\* C16: a joining session is registered before it gets team_info; it receives
\* its entry events in the order team_info, "joined" announcement, leaderboard,
\* question, each at most once; a handler that has reached its receive loop
\* has sent team_info and the leaderboard, and the question exactly if the
\* room has an active one; no event of the session is processed before that.
C16_EntryOrder ==
    \A s \in Clients :
        /\ \A i, j \in 1..Len(OwnEvents(s)) :
              i < j => \/ EntryRank(OwnEvents(s)[i].type) < EntryRank(OwnEvents(s)[j].type)
                       \/ (OwnEvents(s)[i].type = "chat" /\ OwnEvents(s)[j].type = "chat")
        /\ HasOwn(s, "team_info") => (s \in LiveSet(s) \/ pc[s] \in {"bc_left", "closed"})
        /\ pc[s] = "loop" =>
              /\ HasOwn(s, "team_info") /\ HasOwn(s, "leaderboard")
              /\ HasOwn(s, "question") <=> ActiveIn(sessRoom[s]) # {}
        /\ \A m \in Clients :
              (\E i \in 1..Len(inbox[m]) : inbox[m][i].type = "chat" /\ inbox[m][i].src = s)
                  => HasOwn(s, "leaderboard")

\* s2 joined r1 after s1, received its four entry events in order, and its
\* chat was processed afterwards.
C16_Witness ==
    /\ conns["r1"] = <<"s1", "s2">>
    /\ Len(OwnEvents("s2")) = 5
    /\ OwnEvents("s2")[1].type = "team_info"
    /\ OwnEvents("s2")[2].type = "system_message_joined"
    /\ OwnEvents("s2")[3].type = "leaderboard"
    /\ OwnEvents("s2")[4].type = "question"
    /\ OwnEvents("s2")[5].type = "chat"

\* The handler of s ends its entry actions in this step and goes to its loop.
EntryDone(s) == pc[s] = "sent_lb" /\ pc'[s] = "loop"

\* The types of the entry events connection s has received, in order.
OwnEntryTypes(s) == [i \in 1..Len(OwnEvents(s)) |-> OwnEvents(s)[i].type]

\* C17: the step that ends the entry actions delivers a question exactly if
\* the room has an active question at that moment (that question); a session
\* that joins a room without active question has then received team_info, the
\* "joined" system_message and the leaderboard, and no question.
C17_QuestionIffActive ==
    [][\A s \in Clients :
          EntryDone(s) =>
              IF ActiveIn(sessRoom[s]) = {}
              THEN /\ inbox'[s] = inbox[s]
                   /\ OwnEntryTypes(s) = <<"team_info", "system_message_joined", "leaderboard">>
              ELSE \E q \in ActiveIn(sessRoom[s]) :
                       inbox'[s] = Append(inbox[s], Msg("question", s, q))]_vars


\* C18: a question message never reveals the correct answer: for two questions that
\* differ only in correct_answer, send_question produces the same message; the
\* message carries exactly type, id, text, question_type, points, time_limit and,
\* for a multiple-choice question only, the question's options (letter and text).
QuestionKeys == {"type", "id", "text", "question_type", "points", "time_limit"}
C18_PayloadHidesCorrectAnswer ==
    payload # <<>> =>
        LET question == probe[1]
            m == payload[1]
        IN
        /\ payload[1] = payload[2]
        /\ DOMAIN m = IF question.question_type = "MULTIPLE_CHOICE"
                      THEN QuestionKeys \cup {"options"} ELSE QuestionKeys
        /\ m.type = "question" /\ m.id = question.id /\ m.text = question.text
        /\ m.question_type = question.question_type
        /\ m.points = question.points /\ m.time_limit = question.time_limit
        /\ question.question_type = "MULTIPLE_CHOICE" =>
              /\ Len(m.options) = Len(OptionsOf(probe[3], question.id))
              /\ \A i \in 1..Len(m.options) :
                    /\ DOMAIN m.options[i] = {"letter", "text"}
                    /\ m.options[i].letter = OptionsOf(probe[3], question.id)[i].option_letter
                    /\ m.options[i].text = OptionsOf(probe[3], question.id)[i].option_text

\* a multiple-choice question with options was sent for two different answers
C18_Witness ==
    /\ payload # <<>>
    /\ probe[1].correct_answer # probe[2].correct_answer
    /\ probe[1].question_type = "MULTIPLE_CHOICE"
    /\ Len(payload[1].options) = 2


\* C19: a correct answer to the room's active question adds the question's points
\* to the team's room points; the submitter (its connection open and reading) then
\* gets a private answer_result with correct = true, points_earned = the
\* question's points and total_points = the team's new room total, and only after
\* that its handler broadcasts a leaderboard_update in which the team appears with
\* its stored room total, which includes the award.
Key(s) == <<sessTeam[s], sessRoom[s]>>
CorrectStep(s) == pc[s] = "loop" /\ pc'[s] # "loop" /\ commitSeq' = commitSeq + 1
Reads(s) == alive[s] /\ s \notin stalled
LastOwnResult(s) ==
    LET own == SelectSeq(inbox[s], LAMBDA m : m.type = "answer_result_correct" /\ m.src = s)
    IN IF own = <<>> THEN NoMsg ELSE own[Len(own)]
C19_CorrectAnswerFlow ==
    /\ [][\A s \in Clients : CorrectStep(s) =>
            \E q \in ActiveIn(sessRoom[s]) :
               /\ partPoints'[Key(s)] = partPoints[Key(s)] + QPoints(q)
               /\ \A m \in Clients \ {s} : inbox'[m] = inbox[m]
               /\ Reads(s) =>
                     /\ pc'[s] = "answered"
                     /\ inbox'[s] = Append(inbox[s],
                            [type |-> "answer_result_correct", src |-> s,
                             ref |-> partPoints'[Key(s)], correct |-> TRUE,
                             points_earned |-> QPoints(q),
                             total_points |-> partPoints'[Key(s)]])]_vars
    /\ [](\A s \in Clients : (pc[s] = "answered" /\ Reads(s)) =>
            /\ \E i \in 1..Len(inbox[s]) : inbox[s][i] = LastOwnResult(s)
            /\ partPoints[Key(s)] >= LastOwnResult(s).total_points)
    /\ [][\A s \in Clients : (pc[s] = "answered" /\ pc'[s] # "answered") =>
            /\ pc'[s] = "bc_lb"
            /\ bMsg'[s].type = "leaderboard_update"
            /\ \E i \in DOMAIN bMsg'[s].leaderboard :
                  /\ bMsg'[s].leaderboard[i].team_id = sessTeam[s]
                  /\ bMsg'[s].leaderboard[i].points = partPoints[Key(s)]
            /\ \A m \in Clients : inbox'[m] # inbox[m] =>
                  inbox'[m] = Append(inbox[m], bMsg'[s])]_vars
    /\ [][\A s \in Clients : pc'[s] = "bc_lb" => pc[s] \in {"answered", "bc_lb"}]_vars

\* s1 (team 1) answered question 1 correctly, got its result with the total 5,
\* and s2 received the leaderboard update showing team 1 with 5 points
C19_Witness ==
    /\ \E i \in 1..Len(inbox["s1"]) :
          /\ inbox["s1"][i].type = "answer_result_correct"
          /\ inbox["s1"][i].points_earned = 5 /\ inbox["s1"][i].total_points = 5
    /\ \E i \in 1..Len(inbox["s2"]) :
          /\ inbox["s2"][i].type = "leaderboard_update" /\ inbox["s2"][i].src = "s1"
          /\ \E j \in DOMAIN inbox["s2"][i].leaderboard :
                /\ inbox["s2"][i].leaderboard[j].team_id = 1
                /\ inbox["s2"][i].leaderboard[j].points = 5


\* C20: an incorrect answer to the active question changes no Participation.points
\* and no Team.total_points, starts no leaderboard broadcast, and produces exactly
\* one message, an answer_result with correct = false, which goes to the submitting
\* session and to no other session.
WrongStep == nAnswers' = nAnswers + 1 /\ commitSeq' = commitSeq
C20_WrongAnswerIsPrivate ==
    [][WrongStep =>
        /\ partPoints' = partPoints /\ totalPoints' = totalPoints
        /\ \A h \in Clients :
              /\ pc'[h] = "answered" => pc[h] = "answered"
              /\ pc'[h] = "bc_lb" => pc[h] = "bc_lb"
              /\ bMsg'[h].type = "leaderboard_update" => bMsg'[h] = bMsg[h]
        /\ \E s \in Clients :
              /\ pc[s] = "loop"
              /\ \A m \in Clients \ {s} : inbox'[m] = inbox[m]
              /\ IF Reads(s)
                 THEN /\ inbox'[s] = Append(inbox[s],
                            [type |-> "answer_result_wrong", src |-> s, ref |-> 0,
                             correct |-> FALSE])
                      /\ pc'[s] = "loop"
                 ELSE inbox'[s] = inbox[s]]_vars

\* s1 got the result of its wrong answer while s2 was in the room; s2 received
\* nothing and nobody has points
C20_Witness ==
    /\ \E i \in 1..Len(inbox["s1"]) :
          inbox["s1"][i].type = "answer_result_wrong" /\ ~inbox["s1"][i].correct
    /\ pc["s2"] = "loop" /\ sessRoom["s2"] = "r1" /\ alive["s2"]
    /\ inbox["s2"] = <<>>
    /\ nAnswers = 1 /\ commitSeq = 0
    /\ \A k \in Participations : partPoints[k] = 0


\* C21: an answer event whose question_id names no question that is active in the
\* session's room (deactivated, never activated, nonexistent, of another room) is
\* dropped: no Answer row is created or changed, no points change, no message is
\* sent to anybody and no broadcast starts; the handler returns to its receive.
C21_LateAnswerDropped ==
    [][nAnswers' = nAnswers + 1 =>
          /\ answers' = answers
          /\ partPoints' = partPoints /\ totalPoints' = totalPoints
          /\ inbox' = inbox
          /\ bMsg' = bMsg /\ bIdx' = bIdx
          /\ pc' = pc /\ conns' = conns]_vars

\* two answers were dropped after question 1 was deactivated, with both sessions
\* in the receive loop of r1
C21_Witness ==
    /\ nAnswers = 2
    /\ answers = {}
    /\ lastOp.op = "deactivate" /\ lastOp.q = 1 /\ ~questions[1].is_active
    /\ pc["s1"] = "loop" /\ pc["s2"] = "loop" /\ sessRoom["s2"] = "r1"
    /\ \A s \in Clients : \A i \in 1..Len(inbox[s]) :
          inbox[s][i].type \notin {"answer_result_correct", "answer_result_wrong",
                                   "leaderboard_update"}

\* C22: no inbound payload ends the connection: a session that is in its receive
\* loop with its transport open is, after any step, still Active (receiving,
\* or sending what the payload asked for) and still in its room's live set.
ActivePcs == {"loop", "bc_chat", "answered", "bc_lb"}
C22_PayloadNeverTerminates ==
    [][\A s \in Clients : (pc[s] = "loop" /\ alive[s]) =>
          /\ pc'[s] \in ActivePcs
          /\ s \in Members(conns'[sessRoom[s]])]_vars


\* C23: every inbound payload that is not a well-formed chat or answer event is
\* turned into chat: the step that takes such a payload from a session starts a
\* broadcast of a chat event of that session to its room.
C23_MalformedFallsBackToChat ==
    [][nChats' = nChats + 1 =>
          \E s \in Clients :
              /\ pc[s] = "loop" /\ pc'[s] = "bc_chat"
              /\ bMsg'[s].type = "chat" /\ bMsg'[s].src = s]_vars


\* C24: disconnect is idempotent: for a connection that is not in the room's list,
\* or a room that is no key of the registry, it raises nothing and returns the
\* registry unchanged; otherwise it removes the connection (and the key of a list
\* that became empty); a second call raises nothing and changes nothing more.
C24_DisconnectIdempotent ==
    payload # <<>> =>
        LET d == probe[1]
            websocket == probe[2]
            room_id == probe[3]
            once == payload[1]
            twice == payload[2]
            absent == room_id \notin DOMAIN d \/ websocket \notin Members(d[room_id])
        IN
        /\ once.raised = "none" /\ twice.raised = "none"
        /\ twice.registry = once.registry
        /\ absent => once.registry = d
        /\ ~absent =>
              /\ \A r \in DOMAIN once.registry : websocket \in Members(once.registry[r]) =>
                                                    r # room_id
              /\ \A r \in (DOMAIN d) \ {room_id} :
                    r \in DOMAIN once.registry /\ once.registry[r] = d[r]
              /\ room_id \in DOMAIN once.registry <=> Len(d[room_id]) > 1

\* disconnect removed the only connection of a room and deleted the room's key;
\* the second call found no entry for the room and changed nothing
C24_Witness ==
    /\ payload # <<>>
    /\ probe[3] \in DOMAIN probe[1]
    /\ probe[1][probe[3]] = <<probe[2]>>
    /\ probe[3] \notin DOMAIN payload[1].registry
    /\ payload[2] = payload[1]

\* C25: the leaderboard is a function of the stored points: two computations for
\* the same room with no change in between give the same sequence of (rank, team)
\* entries, also when teams have equal points.
C25_LeaderboardDeterministic ==
    payload # <<>> => payload[1].leaderboard = payload[2].leaderboard

\* C26: every leaderboard payload, private snapshot and broadcast update, lists
\* each participation of the room exactly once, in non-increasing order of points,
\* with the ranks 1, 2, ..., n in list order, also across ties.
C26_LeaderboardWellFormed ==
    payload # <<>> =>
        \A p \in 1..2 :
            LET lb == payload[p].leaderboard
                room_id == probe[1]
                part == probe[2]
            IN
            /\ payload[p].type = IF p = 1 THEN "leaderboard" ELSE "leaderboard_update"
            /\ Len(lb) = Cardinality({k \in Participations : k[2] = room_id})
            /\ \A k \in Participations : k[2] = room_id =>
                  Cardinality({i \in 1..Len(lb) : lb[i].team_id = k[1]}) = 1
            /\ \A i \in 1..Len(lb) :
                  /\ lb[i].rank = i
                  /\ <<lb[i].team_id, room_id>> \in Participations
                  /\ lb[i].points = part[<<lb[i].team_id, room_id>>]
            /\ \A i, j \in 1..Len(lb) : i < j => lb[i].points >= lb[j].points

\* two teams of r1 with equal points got the ranks 1 and 2
C26_Witness ==
    /\ payload # <<>>
    /\ probe[1] = "r1"
    /\ probe[2][<<1, "r1">>] = 5 /\ probe[2][<<2, "r1">>] = 5
    /\ Len(payload[2].leaderboard) = 2
    /\ payload[2].leaderboard[2].rank = 2


\* C27: the verdict is "correct" exactly if the submitted text and the question's
\* correct answer have the same length and agree at every position up to letter
\* case, for multiple-choice and for free-text questions alike; a text that
\* differs in anything else, a blank included, is judged incorrect.
CasePairs == {{"a", "A"}, {"b", "B"}}
SameUpToCase(x, y) ==
    /\ Len(x) = Len(y)
    /\ \A i \in 1..Len(x) : x[i] = y[i] \/ {x[i], y[i]} \in CasePairs
C27_VerdictIsCaseInsensitiveEquality ==
    payload # <<>> => (payload[1] <=> SameUpToCase(probe[3], probe[2]))

\* "b " was judged incorrect against "B", and "aB" correct against "Ab"
C27_Witness ==
    /\ payload # <<>>
    /\ \/ probe[2] = <<"B">> /\ probe[3] = <<"b", " ">> /\ ~payload[1]
       \/ probe[2] = <<"A", "b">> /\ probe[3] = <<"a", "B">> /\ payload[1]


\* C28: at most one participation row exists per (team, room) in every reachable
\* state; a login never removes or changes a row, creates one on a team's first
\* login to a room and none on a later login.
C28_OneParticipationPerTeamAndRoom ==
    /\ [](\A p1, p2 \in participationTable :
            (p1.team_id = p2.team_id /\ p1.room_id = p2.room_id) => p1 = p2)
    /\ [][/\ participationTable \subseteq participationTable'
          /\ Cardinality(participationTable') <= Cardinality(participationTable) + 1
          /\ \A t \in teamTable, r \in Rooms :
                (\E p \in participationTable : p.team_id = t.id /\ p.room_id = r) =>
                    Cardinality({p \in participationTable' :
                                    p.team_id = t.id /\ p.room_id = r}) = 1]_vars

\* both teams are in both rooms and the last login was a repeated one
C28_Witness ==
    /\ Cardinality(participationTable) = 4
    /\ Cardinality(teamTable) = 2
    /\ lastOp.op = "login_again"
    /\ prevOp.op = "login_again"


\* C29: a store failure in a commit of process_answer aborts the operation as a
\* whole and crashes nothing: the room points and the total points stay what the
\* committed awards make them, no stored Answer is marked correct unless the
\* team was awarded the question's points, and every session that connected and
\* whose client stays connected is still Active (or entering) and registered.
C29_StoreFailureAbortsCleanly ==
    /\ \A k \in Participations : partPoints[k] = awarded[k]
    /\ \A t \in Teams : totalPoints[t] = SumOverRooms(awarded, t, RoomsOf(t))
    /\ \A a \in answers :
          a.is_correct =>
              awarded[<<a.team_id, questions[a.question_id].room_id>>] >= QPoints(a.question_id)
    /\ \A s \in Clients :
          /\ pc[s] # "crashed"
          /\ pc[s] \notin {"new", "rejected", "accept"} => (alive[s] /\ s \in LiveSet(s))


\* C30: activate and deactivate on a question id that does not exist report
\* not-found (404) and change no question's activity flag in any room.
C30_SetActiveOnMissingQuestion ==
    [][(lastOp'.q \in QuestionIds /\ ~questions[lastOp'.q].exists) =>
          /\ lastOp'.op = "set_active_404" /\ ~lastOp'.ok
          /\ questions' = questions]_vars

\* a question was activated, then a request for a missing id was refused, and
\* the activated question is still the active one of its room
C30_Witness ==
    /\ lastOp.op = "set_active_404" /\ ~questions[lastOp.q].exists
    /\ prevOp.op = "activate" /\ prevOp.ok
    /\ ActiveIn(questions[prevOp.q].room_id) = {prevOp.q}

\* Connection s has received the question event for question q.
HasQuestion(s, q) ==
    \E i \in 1..Len(inbox[s]) : inbox[s][i].type = "question" /\ inbox[s][i].ref = q

\* The last request activated question q, a question of the room in which
\* connection s is in its receive loop, which s has not been sent.
ActivatedUnseen(s, q) ==
    /\ lastOp = [op |-> "activate", q |-> q, ok |-> TRUE]
    /\ questions[q].is_active /\ questions[q].room_id = sessRoom[s]
    /\ pc[s] = "loop" /\ alive[s]
    /\ ~HasQuestion(s, q)

\* C31: question changes are fanned out: when a question of a room is
\* activated, every session connected to that room at that moment eventually
\* receives the question event for it, unless it disconnects first.
C31_ActivationFannedOut ==
    \A s \in Clients, q \in QuestionIds :
        ActivatedUnseen(s, q) ~> (HasQuestion(s, q) \/ ~alive[s] \/ pc[s] # "loop")

\* The leaderboard updates connection s has received, in order of arrival.
UpdatesOf(s) == SelectSeq(inbox[s], LAMBDA m : m.type = "leaderboard_update")

\* No handler of room r is between an award and the end of its broadcast, or
\* in any other broadcast.
RoomIdle(r) ==
    \A h \in Clients : sessRoom[h] = r => pc[h] \in {"new", "rejected", "loop", "closed", "crashed"}

\* Connection s is registered and reading, and it was connected for every
\* award so far: it has been sent the update of each commit.
ConnectedThroughout(s) ==
    /\ pc[s] = "loop" /\ alive[s] /\ s \notin stalled
    /\ s \in LiveSet(s)
    /\ commitSeq > 0
    /\ {UpdatesOf(s)[i].ref : i \in 1..Len(UpdatesOf(s))} = 1..commitSeq

\* Leaderboard lb shows, for every team of room r, the points stored now.
ShowsStored(lb, r) ==
    /\ {lb[i].team_id : i \in DOMAIN lb} = RoomTeams(r)
    /\ \A i \in DOMAIN lb : lb[i].points = partPoints[<<lb[i].team_id, r>>]

\* C32: no leaderboard update is lost: when every handler of a room is idle,
\* the last leaderboard_update of each session that was connected throughout
\* shows the room points stored now, for every team.
C32_LastUpdateIsCurrent ==
    \A s \in Clients :
        (ConnectedThroughout(s) /\ RoomIdle(sessRoom[s])) =>
            ShowsStored(UpdatesOf(s)[Len(UpdatesOf(s))].leaderboard, sessRoom[s])

\* The step in which handler s processes an answer event for question q, the
\* active question of its room, and the verdict is "correct".
CorrectEvent(s, q) ==
    /\ nAnswers' = nAnswers + 1
    /\ pc[s] = "loop" /\ pc'[s] # "loop"
    /\ q \in ActiveIn(sessRoom[s])
    /\ lastSub'[<<sessTeam[s], q>>] # <<>>
    /\ lastSub'[<<sessTeam[s], q>>][2]

\* C33: points are awarded per correct submission, not per question: every
\* correct answer event for the active question, whatever the team sent
\* before (nothing, a wrong answer, or a correct one), adds the question's
\* points to the team's room points and to its total points, and the team has
\* exactly one Answer row for the question afterwards.
C33_AwardPerCorrectSubmission ==
    [][\A s \in Clients, q \in QuestionIds :
          CorrectEvent(s, q) =>
              /\ partPoints'[Key(s)] = partPoints[Key(s)] + QPoints(q)
              /\ totalPoints'[sessTeam[s]] = totalPoints[sessTeam[s]] + QPoints(q)
              /\ Cardinality({a \in answers' : /\ a.team_id = sessTeam[s]
                                               /\ a.question_id = q}) = 1]_vars

\* Team 1, through its one session s1, answered question 1 correctly twice:
\* 10 room points, 10 total points, one Answer row.
C33_Witness ==
    /\ sessTeam["s1"] = 1 /\ sessTeam["s2"] = 2
    /\ commitSeq = 2
    /\ lastSub[<<1, 1>>] = <<<<"b">>, TRUE>>
    /\ partPoints[<<1, "r1">>] = 2 * QPoints(1)
    /\ totalPoints[1] = 2 * QPoints(1)
    /\ Cardinality(ExistingAnswers(1, 1)) = 1

\* The step in which connection s is appended to its room's list.
Joins(s) == s \notin LiveSet(s) /\ sessRoom'[s] \in Rooms /\ s \in Members(conns'[sessRoom'[s]])

\* The step in which connection s is removed from its room's list.
Leaves(s) == s \in LiveSet(s) /\ s \notin Members(conns'[sessRoom[s]])

\* The types of the events that are broadcast to a room.
RoomEventTypes == {"chat", "system_message_joined", "system_message_left", "leaderboard_update"}

\* C34: rooms are isolated: an event broadcast to a room (chat,
\* system_message, leaderboard_update) that a session has received was
\* broadcast by a handler of the room the session is registered in, and a
\* connect or a disconnect on one room leaves the list of every other room
\* unchanged.
C34_RoomsIsolated ==
    /\ [](\A s \in Clients : \A i \in 1..Len(inbox[s]) :
             inbox[s][i].type \in RoomEventTypes =>
                 sessRoom[inbox[s][i].src] = sessRoom[s])
    /\ [][\A s \in Clients : (Joins(s) \/ Leaves(s)) =>
             \A r \in Rooms \ {sessRoom'[s]} : conns'[r] = conns[r]]_vars

\* s1 is registered in r1 and s2 in r2, both in their receive loops: s1 has
\* received the leaderboard update of its own correct answer, s2 its own chat
\* event, and neither has received anything from the other.
C34_Witness ==
    /\ sessRoom["s1"] = "r1" /\ sessRoom["s2"] = "r2"
    /\ conns["r1"] = <<"s1">> /\ conns["r2"] = <<"s2">>
    /\ pc["s1"] = "loop" /\ pc["s2"] = "loop"
    /\ \E i \in 1..Len(inbox["s1"]) : inbox["s1"][i].type = "leaderboard_update"
    /\ \E i \in 1..Len(inbox["s2"]) : inbox["s2"][i].type = "chat"
    /\ \A i \in 1..Len(inbox["s1"]) : inbox["s1"][i].src = "s1"
    /\ \A i \in 1..Len(inbox["s2"]) : inbox["s2"][i].src = "s2"

\* C35: for every team, Team.total_points equals the sum of the team's
\* Participation.points over all rooms, in every reachable state (teams and
\* participations start at 0 and only answer processing changes points).
C35_TotalIsSumOfRooms ==
    \A t \in Teams : totalPoints[t] = SumOverRooms(partPoints, t, RoomsOf(t))

\* Team 1 has been awarded in both of its rooms: 5 points in r1, 2 in r2 and
\* a total of 7.
C35_Witness ==
    /\ partPoints[<<1, "r1">>] = QPoints(1)
    /\ partPoints[<<1, "r2">>] = QPoints(2)
    /\ totalPoints[1] = QPoints(1) + QPoints(2)

====
